---- MODULE Spec2Model ----
(***************************************************************************)
(* Model of the EvacAI backend (src/backend): the per-building layout      *)
(* cache (path_planner.load_building_layout), the path enumerator          *)
(* (find_all_paths), the safety filter and ranker (is_safe_path,           *)
(* get_total_distance, min) and the route endpoints of main.py.            *)
(***************************************************************************)
EXTENDS Integers, Sequences, FiniteSets, TLC

VARIABLES
    \* the service: main.py and path_planner.py module state, the data
    \* directory and the need_building_layout table
    files, building_layouts, user_locations, user_destinations,
    threat_locations, need_building_layout, response,
    \* one graph object and the calls of find_all_paths made on it
    pedges, pgraph, pcall,
    \* the frames of one call of find_all_paths while it runs, outermost first
    pstack,
    \* one call of is_safe_path
    spath, shazards, sresult,
    \* the threads inside load_building_layout: where each one is, and its
    \* local variables and return value
    lpc, llocal,
    \* one call of angle_to_direction: its argument and its return value
    adiff, adirection,
    \* one route put into words: the route and the element document its
    \* positions come from, the output of describe_route and the output of
    \* optimize_directions_with_landmarks
    droute, dpos, ddirections, dresult,
    \* one run of graph.py: the elements it reads and the edges it writes
    gplan, gedges

serviceVars == <<files, building_layouts, user_locations, user_destinations,
                 threat_locations, need_building_layout, response>>
pathVars == <<pedges, pgraph, pcall, pstack>>
safeVars == <<spath, shazards, sresult>>
loadVars == <<lpc, llocal>>
angleVars == <<adiff, adirection>>
descVars == <<droute, dpos, ddirections, dresult>>
builderVars == <<gplan, gedges>>
\* the variables outside the service
moreVars == <<loadVars, angleVars, descVars, builderVars>>
vars == <<serviceVars, pathVars, safeVars, moreVars>>

\* no thread is inside load_building_layout
LoadIdle ==
    /\ lpc = <<>>
    /\ llocal = <<>>

\* angle_to_direction is not being called
AngleIdle ==
    /\ adiff = 0
    /\ adirection = "none"

\* no route is being put into words
DescIdle ==
    /\ droute = <<>>
    /\ dpos = "none"
    /\ ddirections = [done |-> FALSE, value |-> <<>>]
    /\ dresult = [done |-> FALSE, value |-> <<>>, segments |-> <<>>]

\* graph.py is not running
BuilderIdle ==
    /\ gplan = <<>>
    /\ gedges = [done |-> FALSE, edges |-> <<>>]

MoreIdle ==
    /\ LoadIdle
    /\ AngleIdle
    /\ DescIdle
    /\ BuilderIdle

(***************************************************************************)
(* Bounds                                                                  *)
(***************************************************************************)
\* longest edge list of a graph document enumerated by SpecPaths
MaxEdges == 3
\* longest path handed to is_safe_path by SpecSafe
MaxPathLen == 3
\* cap on the request_count kept in need_building_layout
MaxMissing == 2
\* threads that call load_building_layout at the same time in SpecLoad
NumLoaders == 2
\* longest route put into words by SpecDirections
MaxRouteLen == 5
\* most elements in a floor plan read by graph.py in SpecBuilder
MaxElements == 4

(***************************************************************************)
(* Names and str.lower()                                                   *)
(***************************************************************************)
\* names as they are stored after normalisation
LowerNames == {"a", "j1", "exit", "back exit", "nonexistent"}
\* names as a client or a document may spell them
MixedNames == {"A", "J1", "J2", "Exit"}
AllNames == LowerNames \cup MixedNames

\* str.lower() on the names of the model
Lower(s) ==
    CASE s = "A" -> "a"
      [] s = "J1" -> "j1"
      [] s = "J2" -> "j2"
      [] s = "Exit" -> "exit"
      [] s = "HQ" -> "hq"
      [] OTHER -> s

\* all sequences over S of length at most n
RECURSIVE SeqsUpTo(_, _)
SeqsUpTo(S, n) ==
    IF n = 0 THEN {<<>>}
    ELSE LET shorter == SeqsUpTo(S, n - 1)
         IN shorter \cup {Append(q, x) : q \in {r \in shorter : Len(r) = n - 1}, x \in S}

SeqToSet(q) == {q[i] : i \in 1..Len(q)}

(***************************************************************************)
(* collections.defaultdict(list)                                           *)
(***************************************************************************)
EmptyGraph == [k \in {} |-> <<>>]

\* graph[k] as a value: a missing key reads as the empty list
GraphGet(graph, k) == IF k \in DOMAIN graph THEN graph[k] ELSE <<>>

\* graph[k] as an effect: reading a missing key inserts it with an empty list
GraphTouch(graph, k) ==
    IF k \in DOMAIN graph THEN graph
    ELSE [x \in (DOMAIN graph) \cup {k} |-> IF x = k THEN <<>> ELSE graph[x]]

\* graph[k].append(v)
GraphAppend(graph, k, v) ==
    [x \in (DOMAIN graph) \cup {k} |->
        IF x = k THEN Append(GraphGet(graph, k), v) ELSE graph[x]]

\* graph[edge["to"].lower()].append(edge["from"].lower())
AppendReverseMutant(graph, t, f) == GraphTouch(graph, t)
AppendReverse(graph, t, f) == GraphAppend(graph, t, f)

\* the loop of load_building_layout over graph_data["edges"]
RECURSIVE BuildGraphFrom(_, _, _)
BuildGraphFrom(edges, i, graph) ==
    IF i > Len(edges) THEN graph
    ELSE LET f == Lower(edges[i].from)
             t == Lower(edges[i].to)
             g1 == GraphAppend(graph, f, t)
             g2 == AppendReverse(g1, t, f)
         IN BuildGraphFrom(edges, i + 1, g2)

BuildGraph(edges) == BuildGraphFrom(edges, 1, EmptyGraph)

(***************************************************************************)
(* find_all_paths                                                          *)
(***************************************************************************)
\* start = start.lower(); end = end.lower()
NormalizeNameMutant(s) == s
NormalizeName(s) == Lower(s)

\* the set the caller keeps after a recursive call that was given visited.copy()
VisitedAfterBranchMutant(callerVisited, calleeVisited) == calleeVisited
VisitedAfterBranch(callerVisited, calleeVisited) == callerVisited

\* path = path + [start]
ExtendPathMutant(path, s) == <<s>>
ExtendPath(path, s) == Append(path, s)

\* One call of find_all_paths and the loop over graph[start].  The value is
\* the list of paths returned, together with the visited set of the call
\* when it returns and the graph as the reads of the call leave it.
RECURSIVE find_all_paths_rec(_, _, _, _, _), find_all_paths_loop(_, _, _, _, _, _, _)
find_all_paths_rec(graph, start, end, path, visited) ==
    LET s == NormalizeName(start)
        e == NormalizeName(end)
        path1 == ExtendPath(path, s)
        visited1 == visited \cup {s}
    IN IF s = e
       THEN [paths |-> <<path1>>, visited |-> visited1, graph |-> graph]
       ELSE find_all_paths_loop(GraphTouch(graph, s), GraphGet(graph, s), 1, e,
                                path1, visited1, <<>>)

find_all_paths_loop(graph, neighbors, i, end, path, visited, paths) ==
    IF i > Len(neighbors)
    THEN [paths |-> paths, visited |-> visited, graph |-> graph]
    ELSE IF neighbors[i] \notin visited
         THEN LET r == find_all_paths_rec(graph, neighbors[i], end, path, visited)
              IN find_all_paths_loop(r.graph, neighbors, i + 1, end, path,
                                     VisitedAfterBranch(visited, r.visited),
                                     paths \o r.paths)
         ELSE find_all_paths_loop(graph, neighbors, i + 1, end, path, visited, paths)

\* find_all_paths(graph, start, end) with path=None, visited=None
find_all_paths(graph, start, end) ==
    find_all_paths_rec(graph, start, end, <<>>, {}).paths

\* the graph object after find_all_paths(graph, start, end) has read it
GraphAfterFindAllPaths(graph, start, end) ==
    find_all_paths_rec(graph, start, end, <<>>, {}).graph

(***************************************************************************)
(* is_safe_path, get_total_distance                                        *)
(***************************************************************************)
\* all(node not in blocked_nodes for node in path)
is_safe_pathMutant(path, blocked_nodes) ==
    \A i \in 2..Len(path) : path[i] \notin blocked_nodes
is_safe_path(path, blocked_nodes) ==
    \A i \in 1..Len(path) : path[i] \notin blocked_nodes

(***************************************************************************)
(* dict                                                                    *)
(***************************************************************************)
EmptyDict == [k \in {} |-> 0]

\* d.get(k, default)
DictGet(d, k, default) == IF k \in DOMAIN d THEN d[k] ELSE default

\* d[k] = v
DictSet(d, k, v) == [x \in (DOMAIN d) \cup {k} |-> IF x = k THEN v ELSE d[x]]

(***************************************************************************)
(* Buildings, users and the documents of the data directory                *)
(***************************************************************************)
Buildings == {"hq"}
UserId == "u1"

GraphDocIds == {"line", "cross", "split"}
ElementDocIds == {"plan"}

\* walkable_graph_clean.json: the "edges" list, as graph.py writes it
GraphDoc(id) ==
    CASE id = "line" ->
           \* the corridor A - J1 - exit
           << [from |-> "A", to |-> "J1"], [from |-> "J1", to |-> "exit"] >>
      [] id = "cross" ->
           \* a rectangle A, J1, exit, back exit with the diagonal A - exit
           << [from |-> "A", to |-> "J1"], [from |-> "A", to |-> "back exit"],
              [from |-> "A", to |-> "exit"], [from |-> "J1", to |-> "exit"],
              [from |-> "back exit", to |-> "exit"] >>
      [] id = "split" ->
           \* two corridors that do not meet
           << [from |-> "A", to |-> "J1"], [from |-> "back exit", to |-> "exit"] >>
      [] OTHER -> <<>>

\* sh3d_elements_with_ids.json: tag, attributes name/x/y and child points.
\* Coordinates are centimetres; every distance between two of the
\* locations of "plan", "corner" and "hall" is a whole number, so that
\* math.dist is exact on them; "wing" serves the directions only, where a
\* distance is shown in tenths of a metre.
ElementDoc(id) ==
    CASE id = "plan" ->
           << [tag |-> "room", name |-> "A", x |-> 0, y |-> 0,
               children |-> << <<-100, -100>>, <<100, -100>>, <<100, 100>>, <<-100, 100>> >>],
              [tag |-> "doorOrWindow", name |-> "exit", x |-> 300, y |-> 400, children |-> <<>>],
              [tag |-> "pieceOfFurniture", name |-> "J1", x |-> 300, y |-> 0, children |-> <<>>],
              [tag |-> "doorOrWindow", name |-> "back exit", x |-> 0, y |-> 400, children |-> <<>>],
              [tag |-> "pieceOfFurniture", name |-> "", x |-> 150, y |-> 200, children |-> <<>>],
              [tag |-> "polyline", name |-> "", x |-> 0, y |-> 0,
               children |-> << <<0, 0>>, <<300, 0>>, <<300, 400>> >>] >>
      [] id = "corner" ->
           \* A at the origin, J1 five metres along x, Exit five metres on along y
           << [tag |-> "room", name |-> "A", x |-> 0, y |-> 0,
               children |-> << <<-100, -100>>, <<100, -100>>, <<100, 100>>, <<-100, 100>> >>],
              [tag |-> "pieceOfFurniture", name |-> "J1", x |-> 500, y |-> 0, children |-> <<>>],
              [tag |-> "doorOrWindow", name |-> "Exit", x |-> 500, y |-> 500, children |-> <<>>] >>
      [] id = "hall" ->
           \* a corridor A - J1 - J2 that reaches the exit through the lobby
           << [tag |-> "room", name |-> "A", x |-> 0, y |-> 0,
               children |-> << <<-100, -100>>, <<100, -100>>, <<100, 100>>, <<-100, 100>> >>],
              [tag |-> "pieceOfFurniture", name |-> "J1", x |-> 300, y |-> 0, children |-> <<>>],
              [tag |-> "pieceOfFurniture", name |-> "J2", x |-> 300, y |-> 400, children |-> <<>>],
              [tag |-> "pieceOfFurniture", name |-> "lobby", x |-> 0, y |-> 400, children |-> <<>>],
              [tag |-> "doorOrWindow", name |-> "exit", x |-> 0, y |-> 800, children |-> <<>>] >>
      [] id = "wing" ->
           \* a corridor A - J1 - J2 - exit with room1 beside its first leg
           \* and room2 beside its second
           << [tag |-> "room", name |-> "A", x |-> 0, y |-> 0,
               children |-> << <<-100, -100>>, <<100, -100>>, <<100, 100>>, <<-100, 100>> >>],
              [tag |-> "pieceOfFurniture", name |-> "J1", x |-> 400, y |-> 0, children |-> <<>>],
              [tag |-> "pieceOfFurniture", name |-> "J2", x |-> 400, y |-> 300, children |-> <<>>],
              [tag |-> "room", name |-> "room1", x |-> 0, y |-> 0,
               children |-> << <<150, 50>>, <<250, 50>>, <<250, 150>>, <<150, 150>> >>],
              [tag |-> "room", name |-> "room2", x |-> 0, y |-> 0,
               children |-> << <<450, 100>>, <<550, 100>>, <<550, 200>>, <<450, 200>> >>],
              [tag |-> "doorOrWindow", name |-> "exit", x |-> 800, y |-> 300, children |-> <<>>] >>
      [] OTHER -> <<>>

(***************************************************************************)
(* load_building_layout                                                    *)
(***************************************************************************)
\* positions = {}: a dict keeps the order in which its keys were inserted
EmptyPositions == [order |-> <<>>, at |-> EmptyDict]

\* positions[name] = xy
PositionsSet(positions, name, xy) ==
    [order |-> IF name \in DOMAIN positions.at THEN positions.order
               ELSE Append(positions.order, name),
     at |-> DictSet(positions.at, name, xy)]

RECURSIVE SumCoord(_, _, _)
SumCoord(pts, c, i) == IF i > Len(pts) THEN 0 ELSE pts[i][c] + SumCoord(pts, c, i + 1)

\* cx = sum(p[0] for p in pts) / len(pts); cy likewise
Centroid(pts) == << SumCoord(pts, 1, 1) \div Len(pts), SumCoord(pts, 2, 1) \div Len(pts) >>

\* the loop of load_building_layout over sh3d_elements
RECURSIVE BuildPositionsFrom(_, _, _)
BuildPositionsFrom(elements, i, positions) ==
    IF i > Len(elements) THEN positions
    ELSE LET el == elements[i]
             next ==
                 IF el.tag \in {"pieceOfFurniture", "doorOrWindow"}
                 THEN IF el.name # ""
                      THEN PositionsSet(positions, Lower(el.name), <<el.x, el.y>>)
                      ELSE positions
                 ELSE IF el.tag = "room"
                      THEN IF el.name # "" /\ Len(el.children) > 0
                           THEN PositionsSet(positions, Lower(el.name), Centroid(el.children))
                           ELSE positions
                      ELSE positions
         IN BuildPositionsFrom(elements, i + 1, next)

BuildPositions(elements) == BuildPositionsFrom(elements, 1, EmptyPositions)

\* if not os.path.exists(graph_path) or not os.path.exists(elements_path)
LayoutMissingMutant(f) == f.graph = "none" /\ f.elements = "none"
LayoutMissing(f) == f.graph = "none" \/ f.elements = "none"

\* f"Building layout for '{building}' not found."
LayoutNotFoundMsg == "Building layout for 'hq' not found."
\* the message of the FileNotFoundError that open() raises
OpenFailedMsg == "[Errno 2] No such file or directory"

\* record_missing_building: insert the row with request_count 1, or add one
\* to the request_count of the row there is
record_missing_building(table, building) ==
    IF building \in DOMAIN table
    THEN DictSet(table, building, (IF table[building] = 0 THEN 1 ELSE table[building]) + 1)
    ELSE DictSet(table, building, 1)

\* the dict stored at building_layouts[building]
ParsedLayout(f) ==
    [graph |-> BuildGraph(GraphDoc(f.graph)),
     positions |-> BuildPositions(ElementDoc(f.elements)),
     raw_graph |-> f.graph,
     raw_elements |-> f.elements]

\* building_layouts[building] = {...}; return building_layouts[building]
Loaded(layout, cache, table, building) ==
    [raised |-> FALSE, msg |-> "", layout |-> layout,
     cache |-> DictSet(cache, building, layout), table |-> table]

\* load_building_layout with building = building_name.lower()
LoadLowered(building, cache, fs, table) ==
    IF building \in DOMAIN cache
    THEN [raised |-> FALSE, msg |-> "", layout |-> cache[building],
          cache |-> cache, table |-> table]
    ELSE IF LayoutMissing(fs[building])
         THEN [raised |-> TRUE, msg |-> LayoutNotFoundMsg, layout |-> <<>>,
               cache |-> cache, table |-> record_missing_building(table, building)]
         ELSE IF fs[building].graph = "none" \/ fs[building].elements = "none"
              THEN [raised |-> TRUE, msg |-> OpenFailedMsg, layout |-> <<>>,
                    cache |-> cache, table |-> table]
              ELSE Loaded(ParsedLayout(fs[building]), cache, table, building)

\* load_building_layout(building_name) on the cache, the data directory and
\* the table: whether it raised FileNotFoundError and with which message,
\* the layout returned, and the cache and the table afterwards
load_building_layout(building_name, cache, fs, table) ==
    LoadLowered(Lower(building_name), cache, fs, table)

\* layout_exists(building_name)
layout_exists(building_name, fs) ==
    LET building == Lower(building_name)
    IN fs[building].graph # "none" /\ fs[building].elements # "none"

(***************************************************************************)
(* get_total_distance and the choice of the best path                      *)
(***************************************************************************)
\* the integer square root, by bisection
RECURSIVE SqrtBetween(_, _, _)
SqrtBetween(n, lo, hi) ==
    IF lo >= hi THEN lo
    ELSE LET mid == (lo + hi + 1) \div 2
         IN IF mid * mid <= n THEN SqrtBetween(n, mid, hi) ELSE SqrtBetween(n, lo, mid - 1)

Abs(x) == IF x < 0 THEN -x ELSE x

\* math.dist(p, q), exact where the distance is a whole number and rounded
\* down to one elsewhere
Dist(p, q) ==
    LET dx == Abs(p[1] - q[1])
        dy == Abs(p[2] - q[2])
    IN SqrtBetween(dx * dx + dy * dy, 0, dx + dy)

\* sum(math.dist(positions_map[a], positions_map[b]) for a, b in zip(route, route[1:]))
RECURSIVE get_total_distance_from(_, _, _)
get_total_distance_from(route, positions_map, i) ==
    IF i >= Len(route) THEN 0
    ELSE Dist(positions_map.at[route[i]], positions_map.at[route[i + 1]])
         + get_total_distance_from(route, positions_map, i + 1)

get_total_distance(route, positions_map) == get_total_distance_from(route, positions_map, 1)

\* min(..., key=...) keeps the first of the smallest: a later candidate
\* replaces the best so far only when its key is strictly smaller
ReplacesBestMutant(candidateKey, bestKey) == candidateKey <= bestKey
ReplacesBest(candidateKey, bestKey) == candidateKey < bestKey

\* the index min(candidates, key=...) selects, keys being the list of keys
RECURSIVE MinIndexFrom(_, _, _)
MinIndexFrom(keys, i, best) ==
    IF i > Len(keys) THEN best
    ELSE MinIndexFrom(keys, i + 1, IF ReplacesBest(keys[i], keys[best]) THEN i ELSE best)

MinIndex(keys) == MinIndexFrom(keys, 2, 1)

\* [p for p in all_paths if is_safe_path(p, threat_list)]
RECURSIVE SafePathsFrom(_, _, _)
SafePathsFrom(all_paths, threat_list, i) ==
    IF i > Len(all_paths) THEN <<>>
    ELSE (IF is_safe_path(all_paths[i], threat_list) THEN <<all_paths[i]>> ELSE <<>>)
         \o SafePathsFrom(all_paths, threat_list, i + 1)

SafePaths(all_paths, threat_list) == SafePathsFrom(all_paths, threat_list, 1)

\* [get_total_distance(p, positions) for p in paths]
PathKeys(paths, positions) == [i \in 1..Len(paths) |-> get_total_distance(paths[i], positions)]

(***************************************************************************)
(* The endpoints of main.py                                                *)
(***************************************************************************)
\* the result of the last operation: the dict an endpoint returned, with the
\* local variables of the handler that the dict is built from
NoResponse ==
    [op |-> "none", building |-> "", valid |-> FALSE, kind |-> "none", error |-> "",
     routed |-> FALSE, start |-> "", destination |-> "", threats |-> {},
     path |-> <<>>, distance |-> 0, chosen_exit |-> "", layout_status |-> ""]

ErrorResponse(op, building, valid, msg) ==
    [NoResponse EXCEPT !.op = op, !.building = Lower(building), !.valid = valid,
                       !.kind = "error", !.error = msg]

NotRegisteredMsg == "User is not registered. Please register first."
LocationNotFoundMsg == "User location not found."
NoPathsMsg == "No paths found."
AllBlockedMsg == "All paths are blocked due to threats."
SafeMoveBlockedMsg == "All paths from current location are blocked due to threats."
SafeMoveNoLocationMsg == "Location not found for user 'u1' in building 'hq'."
SafeMoveNoDestinationMsg == "Destination not set for user 'u1'."
NoSafeExitMsg == "No safe exit paths found."
AutomaterFailedMsg == "Failed to run automater.py"

\* the key (building.lower(), user_id.lower())
UserKey(building) == <<Lower(building), Lower(UserId)>>

\* list(threat_locations.get(building.lower(), set()))
ThreatList(threats, building) == DictGet(threats, Lower(building), {})

\* "exit" in name
ContainsExit(name) == name \in {"exit", "back exit"}

\* exits = [name for name in positions if "exit" in name]
RECURSIVE ExitsFrom(_, _)
ExitsFrom(order, i) ==
    IF i > Len(order) THEN <<>>
    ELSE (IF ContainsExit(order[i]) THEN <<order[i]>> ELSE <<>>) \o ExitsFrom(order, i + 1)

Exits(positions) == ExitsFrom(positions.order, 1)

\* the loops of find_best_exit over the exits and over the paths to each:
\* safe_routes as a list of (exit_name, path, dist), and the graph as the
\* calls of find_all_paths leave it
RECURSIVE SafeRoutesOfPaths(_, _, _, _, _)
SafeRoutesOfPaths(exit_name, all_paths, threats, positions, i) ==
    IF i > Len(all_paths) THEN <<>>
    ELSE (IF is_safe_path(all_paths[i], threats)
          THEN << [exit |-> exit_name, path |-> all_paths[i],
                   dist |-> get_total_distance(all_paths[i], positions)] >>
          ELSE <<>>)
         \o SafeRoutesOfPaths(exit_name, all_paths, threats, positions, i + 1)

RECURSIVE SafeRoutesFrom(_, _, _, _, _, _, _)
SafeRoutesFrom(exits, i, graph, current, threats, positions, safe_routes) ==
    IF i > Len(exits) THEN [safe_routes |-> safe_routes, graph |-> graph]
    ELSE SafeRoutesFrom(exits, i + 1, GraphAfterFindAllPaths(graph, current, exits[i]),
                        current, threats, positions,
                        safe_routes \o SafeRoutesOfPaths(exits[i],
                                           find_all_paths(graph, current, exits[i]),
                                           threats, positions, 1))

\* the route dict of find_best_exit for the entry min(safe_routes, key=...) selects
BestExitResponse(routedResp, best) ==
    [routedResp EXCEPT !.kind = "route", !.error = "", !.chosen_exit = best.exit,
                       !.path = best.path, !.distance = best.dist]

\* min(safe_routes, key=lambda x: x[2])
MinRoute(safe_routes) ==
    safe_routes[MinIndex([k \in 1..Len(safe_routes) |-> safe_routes[k].dist])]

\* find_best_exit once the layout is there and the loops have run
BestExitOfRoutes(sr, routedResp, layout, cache, table, building) ==
    [resp |-> IF sr.safe_routes = <<>> THEN routedResp
              ELSE BestExitResponse(routedResp, MinRoute(sr.safe_routes)),
     cache |-> DictSet(cache, Lower(building), [layout EXCEPT !.graph = sr.graph]),
     table |-> table]

\* find_best_exit after its call of load_building_layout
BestExitOfLoad(ld, op, building, current, threats) ==
    IF ld.raised
    THEN [resp |-> ErrorResponse(op, building, TRUE, ld.msg),
          cache |-> ld.cache, table |-> ld.table]
    ELSE BestExitOfRoutes(
             SafeRoutesFrom(Exits(ld.layout.positions), 1, ld.layout.graph, current,
                            threats, ld.layout.positions, <<>>),
             [ErrorResponse(op, building, TRUE, NoSafeExitMsg)
                 EXCEPT !.routed = TRUE, !.start = current, !.threats = threats],
             ld.layout, ld.cache, ld.table, building)

\* find_best_exit(building, user_id, current, threats): the dict returned,
\* and the cache and the table afterwards
find_best_exit(op, building, current, threats, cache, fs, table) ==
    BestExitOfLoad(load_building_layout(building, cache, fs, table),
                   op, building, current, threats)

\* the route dict for best_path = min(safe_paths, key=...)
BestPathResponse(routedResp, best_path, positions) ==
    [routedResp EXCEPT !.kind = "route", !.error = "", !.path = best_path,
                       !.distance = get_total_distance(best_path, positions)]

\* min(safe_paths, key=lambda p: get_total_distance(p, positions))
MinPath(safe_paths, positions) == safe_paths[MinIndex(PathKeys(safe_paths, positions))]

\* the checks on all_paths and safe_paths; noPathMsg is "" where the handler
\* does not look at all_paths
RouteOfPaths(all_paths, safe_paths, routedResp, positions, noPathMsg) ==
    IF all_paths = <<>> /\ noPathMsg # ""
    THEN [routedResp EXCEPT !.error = noPathMsg]
    ELSE IF safe_paths = <<>>
         THEN routedResp
         ELSE BestPathResponse(routedResp, MinPath(safe_paths, positions), positions)

RouteOfAllPaths(all_paths, routedResp, positions, threats, noPathMsg) ==
    RouteOfPaths(all_paths, SafePaths(all_paths, threats), routedResp, positions, noPathMsg)

\* the tail shared by auto_reroute (with a destination) and safe_move: the
\* paths, the safe ones among them and the best of these; the dict returned
\* and the layout with its graph as find_all_paths leaves it
RouteTo(op, building, current, destination, layout, threats, noPathMsg, blockedMsg) ==
    [resp |-> RouteOfAllPaths(find_all_paths(layout.graph, current, destination),
                              [ErrorResponse(op, building, TRUE, blockedMsg)
                                  EXCEPT !.routed = TRUE, !.start = current,
                                         !.destination = destination, !.threats = threats],
                              layout.positions, threats, noPathMsg),
     layout |-> [layout EXCEPT
                    !.graph = GraphAfterFindAllPaths(layout.graph, current, destination)]]

\* the result of a handler that stops with an error
Stopped(resp, cache, table, destinations) ==
    [resp |-> resp, cache |-> cache, table |-> table, destinations |-> destinations]

\* the result of a handler that went through RouteTo or find_best_exit
Routed(rt, cache, table, destinations, building) ==
    [resp |-> rt.resp, cache |-> DictSet(cache, Lower(building), rt.layout),
     table |-> table, destinations |-> destinations]

\* auto_reroute without a destination, after find_best_exit
AutoExit(be, destinations, key) ==
    [resp |-> be.resp, cache |-> be.cache, table |-> be.table,
     destinations |-> IF be.resp.kind = "route"
                      THEN DictSet(destinations, key, be.resp.chosen_exit)
                      ELSE destinations]

\* auto_reroute after its call of load_building_layout
AutoRerouteOfLoad(ld, building, destination, current, fs, destinations, threats) ==
    IF ld.raised
    THEN Stopped(ErrorResponse("auto_reroute", building, TRUE, ld.msg),
                 ld.cache, ld.table, destinations)
    ELSE IF current = ""
         THEN Stopped(ErrorResponse("auto_reroute", building, TRUE, LocationNotFoundMsg),
                      ld.cache, ld.table, destinations)
         ELSE IF destination # ""
              THEN Routed(RouteTo("auto_reroute", building, current, Lower(destination),
                                  ld.layout, threats, NoPathsMsg, AllBlockedMsg),
                          ld.cache, ld.table,
                          DictSet(destinations, UserKey(building), Lower(destination)),
                          building)
              ELSE AutoExit(find_best_exit("auto_reroute", building, current, threats,
                                           ld.cache, fs, ld.table),
                            destinations, UserKey(building))

\* auto_reroute(req): the dict returned and the module state afterwards
auto_reroute(building, valid, destination, cache, fs, table, locations, destinations, threats) ==
    IF ~valid
    THEN Stopped(ErrorResponse("auto_reroute", building, valid, NotRegisteredMsg),
                 cache, table, destinations)
    ELSE AutoRerouteOfLoad(load_building_layout(building, cache, fs, table),
                           building, destination,
                           DictGet(locations, UserKey(building), ""),
                           fs, destinations, ThreatList(threats, building))

\* safe_move after its call of load_building_layout; dest is
\* req.destination or user_destinations.get(key)
SafeMoveOfLoad(ld, building, dest, current, destinations, threats) ==
    IF ld.raised
    THEN Stopped(ErrorResponse("safe_move", building, TRUE, ld.msg),
                 ld.cache, ld.table, destinations)
    ELSE IF current = ""
         THEN Stopped(ErrorResponse("safe_move", building, TRUE, SafeMoveNoLocationMsg),
                      ld.cache, ld.table, destinations)
         ELSE IF dest = ""
              THEN Stopped(ErrorResponse("safe_move", building, TRUE, SafeMoveNoDestinationMsg),
                           ld.cache, ld.table, destinations)
              ELSE Routed(RouteTo("safe_move", building, current, dest, ld.layout, threats,
                                  "", SafeMoveBlockedMsg),
                          ld.cache, ld.table, destinations, building)

\* safe_move(req): the dict returned and the module state afterwards
safe_move(building, valid, destination, cache, fs, table, locations, destinations, threats) ==
    IF ~valid
    THEN Stopped(ErrorResponse("safe_move", building, valid, NotRegisteredMsg),
                 cache, table, destinations)
    ELSE SafeMoveOfLoad(load_building_layout(building, cache, fs, table),
                        building,
                        IF destination # "" THEN destination
                        ELSE DictGet(destinations, UserKey(building), ""),
                        DictGet(locations, UserKey(building), ""),
                        destinations, ThreatList(threats, building))

\* find_exit_route once the user is known to be registered
FindExitOfLocation(current, building, cache, fs, table, threats) ==
    IF current = ""
    THEN [resp |-> ErrorResponse("find_exits", building, TRUE, LocationNotFoundMsg),
          cache |-> cache, table |-> table]
    ELSE find_best_exit("find_exits", building, current, threats, cache, fs, table)

\* find_exit_route(req): the dict returned and the module state afterwards
find_exit_route(building, valid, cache, fs, table, locations, threats) ==
    IF ~valid
    THEN [resp |-> ErrorResponse("find_exits", building, valid, NotRegisteredMsg),
          cache |-> cache, table |-> table]
    ELSE FindExitOfLocation(DictGet(locations, UserKey(building), ""), building,
                            cache, fs, table, ThreatList(threats, building))

(***************************************************************************)
(* Specification SpecPaths: find_all_paths on the graph of any edge list   *)
(***************************************************************************)
\* names a graph document may hold, as the floor plan spells them
DocNames == {"A", "a", "exit", "j1"}
\* the order of sorted() on these names
NameRank(s) ==
    CASE s = "A" -> 1
      [] s = "B" -> 2
      [] s = "J1" -> 3
      [] s = "a" -> 4
      [] s = "exit" -> 5
      [] s = "j1" -> 6
      [] OTHER -> 7
\* the entries graph.py writes: tuple(sorted((a, b))) with a # b
DocEdges == {e \in [from : DocNames, to : DocNames] : NameRank(e.from) < NameRank(e.to)}
\* final_edges is a list made from a set: no entry twice, any order
IsEdgeList(edges) == \A i, j \in 1..Len(edges) : edges[i] = edges[j] => i = j
\* names a caller may pass as start or end
QueryNames == {"a", "A", "j1", "exit", "nonexistent"}

NoCall == [done |-> FALSE, start |-> "", end |-> "", paths |-> <<>>]

\* the service right after start-up: empty module dictionaries, an empty data
\* directory and an empty need_building_layout table
ServiceIdle ==
    /\ files = [b \in Buildings |-> [graph |-> "none", elements |-> "none"]]
    /\ building_layouts = EmptyDict
    /\ user_locations = EmptyDict
    /\ user_destinations = EmptyDict
    /\ threat_locations = EmptyDict
    /\ need_building_layout = EmptyDict
    /\ response = NoResponse

PathsIdle ==
    /\ pedges = <<>>
    /\ pgraph = EmptyGraph
    /\ pcall = NoCall
    /\ pstack = <<>>

SafeIdle ==
    /\ spath = <<>>
    /\ shazards = {}
    /\ sresult = "none"

InitPaths ==
    /\ pedges \in {q \in SeqsUpTo(DocEdges, MaxEdges) : IsEdgeList(q)}
    /\ pgraph = BuildGraph(pedges)
    /\ pcall = NoCall
    /\ pstack = <<>>
    /\ ServiceIdle
    /\ SafeIdle
    /\ MoreIdle

\* a caller runs find_all_paths(graph, start, end) on the graph object
FindAllPathsCall ==
    \E start \in QueryNames, end \in QueryNames :
        /\ pcall' = [done |-> TRUE, start |-> start, end |-> end,
                     paths |-> find_all_paths(pgraph, start, end)]
        /\ pgraph' = GraphAfterFindAllPaths(pgraph, start, end)
        /\ UNCHANGED <<pedges, pstack, serviceVars, safeVars, moreVars>>

NextPaths == FindAllPathsCall

SpecPaths == InitPaths /\ [][NextPaths]_vars

(***************************************************************************)
(* Specification SpecSearch: one call of find_all_paths run statement by   *)
(* statement, with one frame of pstack per activation of the function      *)
(***************************************************************************)
\* names a caller passes as start, and as end
SearchStarts == {"A", "j1", "nonexistent"}
SearchEnds == {"a", "exit", "nonexistent"}

\* the activation of find_all_paths(graph, start, end, path, visited) before
\* its first statement
EntryFrame(start, path, visited) ==
    [pc |-> "entry", start |-> start, path |-> path, visited |-> visited,
     neighbors |-> <<>>, i |-> 0, paths |-> <<>>]

\* if neighbor not in visited
UnvisitedMutant(neighbor, visited) == TRUE
Unvisited(neighbor, visited) == neighbor \notin visited

\* return result: the activation on top of the stack ends; its caller
\* extends paths with the result and moves on to the next neighbour, and
\* the outermost activation hands the result to the caller of the search
ReturnFromTop(result, calleeVisited) ==
    LET n == Len(pstack)
    IN IF n = 1
       THEN /\ pstack' = <<>>
            /\ pcall' = [pcall EXCEPT !.done = TRUE, !.paths = result]
       ELSE /\ pstack' = [SubSeq(pstack, 1, n - 1) EXCEPT
                             ![n - 1].paths = @ \o result,
                             ![n - 1].i = @ + 1,
                             ![n - 1].visited = VisitedAfterBranch(@, calleeVisited)]
            /\ UNCHANGED pcall

InitSearch ==
    /\ pedges \in {q \in SeqsUpTo(DocEdges, MaxEdges) : IsEdgeList(q)}
    /\ pgraph = BuildGraph(pedges)
    /\ pcall = NoCall
    /\ pstack = <<>>
    /\ ServiceIdle
    /\ SafeIdle
    /\ MoreIdle

\* find_all_paths(graph, start, end) is called with path=None, visited=None
SearchCall ==
    /\ pstack = <<>>
    /\ ~pcall.done
    /\ \E start \in SearchStarts, end \in SearchEnds :
          /\ pcall' = [done |-> FALSE, start |-> start, end |-> end, paths |-> <<>>]
          /\ pstack' = <<EntryFrame(start, <<>>, {})>>
    /\ UNCHANGED <<pedges, pgraph, serviceVars, safeVars, moreVars>>

\* the statements of an activation up to the loop: lower the names, extend
\* the path, mark the node, return [path] at the end node, else read
\* graph[start]
SearchEnter ==
    /\ pstack # <<>>
    /\ LET n == Len(pstack)
           top == pstack[n]
           s == NormalizeName(top.start)
           e == NormalizeName(pcall.end)
           path1 == ExtendPath(top.path, s)
           visited1 == top.visited \cup {s}
       IN /\ top.pc = "entry"
          /\ IF s = e
             THEN /\ ReturnFromTop(<<path1>>, visited1)
                  /\ UNCHANGED pgraph
             ELSE /\ pstack' = [pstack EXCEPT ![n] =
                                   [pc |-> "loop", start |-> s, path |-> path1,
                                    visited |-> visited1,
                                    neighbors |-> GraphGet(pgraph, s), i |-> 1,
                                    paths |-> <<>>]]
                  /\ pgraph' = GraphTouch(pgraph, s)
                  /\ UNCHANGED pcall
    /\ UNCHANGED <<pedges, serviceVars, safeVars, moreVars>>

\* one pass of "for neighbor in graph[start]": recurse into a neighbour that
\* is not in visited with a copy of visited, skip one that is, and return
\* paths after the last one
SearchLoop ==
    /\ pstack # <<>>
    /\ LET n == Len(pstack)
           top == pstack[n]
       IN /\ top.pc = "loop"
          /\ IF top.i > Len(top.neighbors)
             THEN ReturnFromTop(top.paths, top.visited)
             ELSE IF Unvisited(top.neighbors[top.i], top.visited)
                  THEN /\ pstack' = Append(pstack,
                                           EntryFrame(top.neighbors[top.i], top.path,
                                                      top.visited))
                       /\ UNCHANGED pcall
                  ELSE /\ pstack' = [pstack EXCEPT ![n].i = @ + 1]
                       /\ UNCHANGED pcall
    /\ UNCHANGED <<pedges, pgraph, serviceVars, safeVars, moreVars>>

NextSearch ==
    \/ SearchCall
    \/ SearchEnter
    \/ SearchLoop

\* an activation that has a next statement executes it
SpecSearch == InitSearch /\ [][NextSearch]_vars /\ WF_vars(NextSearch)

(***************************************************************************)
(* Specification SpecSafe: is_safe_path on any path and hazard list        *)
(***************************************************************************)
\* names a path or a hazard list may hold; "A" and "a" are different names
SafeNames == {"a", "A", "j1", "exit"}

InitSafe ==
    /\ spath \in SeqsUpTo(SafeNames, MaxPathLen)
    /\ shazards \in SUBSET SafeNames
    /\ sresult = "none"
    /\ ServiceIdle
    /\ PathsIdle
    /\ MoreIdle

\* a caller runs is_safe_path(path, blocked_nodes)
IsSafePathCall ==
    /\ sresult' = IF is_safe_path(spath, shazards) THEN "safe" ELSE "unsafe"
    /\ UNCHANGED <<spath, shazards, serviceVars, pathVars, moreVars>>

NextSafe == IsSafePathCall

SpecSafe == InitSafe /\ [][NextSafe]_vars

(***************************************************************************)
(* The operations of the service                                           *)
(***************************************************************************)
\* the request_count of the building's row stays within the bound
WithinMissingBound(table) == \A b \in DOMAIN table : table[b] <= MaxMissing

\* the building as the requests spell it
ReqBuilding == "HQ"

\* automater.py moves walkable_graph_clean.json into data/<building>
AutomaterMoveGraph ==
    \E b \in Buildings, g \in GraphDocIds :
        /\ files' = [files EXCEPT ![b].graph = g]
        /\ response' = [NoResponse EXCEPT !.op = "automater_graph", !.building = b]
        /\ UNCHANGED <<building_layouts, user_locations, user_destinations,
                       threat_locations, need_building_layout, pathVars, safeVars, moreVars>>

\* automater.py then moves sh3d_elements_with_ids.json into data/<building>
AutomaterMoveElements ==
    \E b \in Buildings, e \in ElementDocIds :
        /\ files[b].graph # "none"
        /\ files' = [files EXCEPT ![b].elements = e]
        /\ response' = [NoResponse EXCEPT !.op = "automater_elements", !.building = b]
        /\ UNCHANGED <<building_layouts, user_locations, user_destinations,
                       threat_locations, need_building_layout, pathVars, safeVars, moreVars>>

\* POST /upload-layout: automater.py is run with one argument, asks for two
\* and exits with status 1, so the handler returns before it moves a file
UploadLayout ==
    /\ response' = ErrorResponse("upload_layout", ReqBuilding, FALSE, AutomaterFailedMsg)
    /\ UNCHANGED <<files, building_layouts, user_locations, user_destinations,
                   threat_locations, need_building_layout, pathVars, safeVars, moreVars>>

\* a route handler returns r.resp and leaves the module state as r has it
Returns(r) ==
    /\ WithinMissingBound(r.table)
    /\ response' = r.resp
    /\ building_layouts' = r.cache
    /\ need_building_layout' = r.table
    /\ user_destinations' = r.destinations
    /\ UNCHANGED <<files, user_locations, threat_locations, pathVars, safeVars, moreVars>>

\* update_location for a registered user, after its call of load_building_layout
LocationUpdated(ld, loc) ==
    /\ WithinMissingBound(ld.table)
    /\ user_locations' = DictSet(user_locations, UserKey(ReqBuilding), Lower(loc))
    /\ building_layouts' = ld.cache
    /\ need_building_layout' = ld.table
    /\ response' = [NoResponse EXCEPT !.op = "update_location",
                                      !.building = Lower(ReqBuilding),
                                      !.valid = TRUE,
                                      !.kind = "ok", !.start = Lower(loc),
                                      !.layout_status =
                                          IF layout_exists(ReqBuilding, files)
                                          THEN "available" ELSE "missing"]
    /\ UNCHANGED <<files, user_destinations, threat_locations, pathVars, safeVars, moreVars>>

\* POST /update-location, the location being one of locs
UpdateLocationOn(locs) ==
    \E valid \in BOOLEAN, loc \in locs :
        IF ~valid
        THEN /\ response' = ErrorResponse("update_location", ReqBuilding, valid, NotRegisteredMsg)
             /\ UNCHANGED <<files, building_layouts, user_locations, user_destinations,
                            threat_locations, need_building_layout, pathVars, safeVars, moreVars>>
        ELSE LocationUpdated(load_building_layout(ReqBuilding, building_layouts, files,
                                                  need_building_layout), loc)

\* POST /add-threat, the threats being some of names
AddThreatOn(names) ==
    \E ts \in (SUBSET names) \ {{}} :
        LET bld == Lower(ReqBuilding)
            now == DictGet(threat_locations, bld, {}) \cup {Lower(t) : t \in ts}
        IN /\ threat_locations' = DictSet(threat_locations, bld, now)
           /\ response' = [NoResponse EXCEPT !.op = "add_threat", !.building = bld,
                                             !.kind = "ok", !.threats = now]
           /\ UNCHANGED <<files, building_layouts, user_locations, user_destinations,
                          need_building_layout, pathVars, safeVars, moreVars>>

\* POST /auto-reroute, the destination being one of dests ("" for none)
AutoRerouteOn(dests) ==
    \E valid \in BOOLEAN, destination \in dests :
        Returns(auto_reroute(ReqBuilding, valid, destination, building_layouts, files,
                             need_building_layout, user_locations, user_destinations,
                             threat_locations))

\* POST /safe-move, the destination being one of dests ("" for none)
SafeMoveOn(dests) ==
    \E valid \in BOOLEAN, destination \in dests :
        Returns(safe_move(ReqBuilding, valid, destination, building_layouts, files,
                          need_building_layout, user_locations, user_destinations,
                          threat_locations))

\* POST /find-exits
FindExitRoute ==
    \E valid \in BOOLEAN :
        Returns(find_exit_route(ReqBuilding, valid, building_layouts, files,
                                need_building_layout, user_locations, threat_locations)
                @@ [destinations |-> user_destinations])

(***************************************************************************)
(* Specification Spec: the service from start-up, a few names              *)
(***************************************************************************)
LocationInputs == {"A", "nonexistent"}
DestinationInputs == {"", "exit"}
ThreatInputs == {"J1"}

Init ==
    /\ ServiceIdle
    /\ PathsIdle
    /\ SafeIdle
    /\ MoreIdle

UpdateLocation == UpdateLocationOn(LocationInputs)
AddThreat == AddThreatOn(ThreatInputs)
AutoReroute == AutoRerouteOn(DestinationInputs)
SafeMove == SafeMoveOn(DestinationInputs)

Next ==
    \/ AutomaterMoveGraph
    \/ AutomaterMoveElements
    \/ UploadLayout
    \/ UpdateLocation
    \/ AddThreat
    \/ AutoReroute
    \/ SafeMove
    \/ FindExitRoute

Spec == Init /\ [][Next]_vars

(***************************************************************************)
(* Specification SpecQuery: the route queries on any loaded layout, any    *)
(* user location, stored destination and hazard set                        *)
(***************************************************************************)
\* locations update_location can have stored, "" for none
StoredLocations == {"", "a", "j1", "exit", "back exit", "nonexistent"}
\* destinations auto_reroute can have stored, "" for none
StoredDestinations == {"", "j1", "exit", "back exit", "nonexistent"}
\* names add_threat can have stored
StoredThreats == {"a", "j1", "exit", "back exit"}
\* destinations a query can ask for, "" for none
QueryDestinations == {"", "J1", "exit", "back exit", "nonexistent"}

\* a dict with the one key k, or the empty dict when v is ""
DictOfOne(k, v) == IF v = "" THEN EmptyDict ELSE DictSet(EmptyDict, k, v)

InitQuery ==
    /\ \E g \in GraphDocIds, e \in ElementDocIds :
          /\ files = [b \in Buildings |-> [graph |-> g, elements |-> e]]
          /\ building_layouts =
                 load_building_layout(ReqBuilding, EmptyDict, files, EmptyDict).cache
    /\ \E loc \in StoredLocations :
          user_locations = DictOfOne(UserKey(ReqBuilding), loc)
    /\ \E dest \in StoredDestinations :
          user_destinations = DictOfOne(UserKey(ReqBuilding), dest)
    /\ \E known \in BOOLEAN, ts \in SUBSET StoredThreats :
          threat_locations = IF known THEN DictSet(EmptyDict, Lower(ReqBuilding), ts)
                             ELSE EmptyDict
    /\ need_building_layout = EmptyDict
    /\ response = NoResponse
    /\ PathsIdle
    /\ SafeIdle
    /\ MoreIdle

AutoRerouteQuery == AutoRerouteOn(QueryDestinations)
SafeMoveQuery == SafeMoveOn(QueryDestinations)

NextQuery ==
    \/ AutoRerouteQuery
    \/ SafeMoveQuery
    \/ FindExitRoute

SpecQuery == InitQuery /\ [][NextQuery]_vars

(***************************************************************************)
(* The graph of an edge list, as graph theory has it                       *)
(***************************************************************************)
NodesOf(edges) ==
    {Lower(edges[i].from) : i \in 1..Len(edges)} \cup {Lower(edges[i].to) : i \in 1..Len(edges)}

IsEdgeOf(edges, x, y) ==
    \E i \in 1..Len(edges) :
        \/ Lower(edges[i].from) = x /\ Lower(edges[i].to) = y
        \/ Lower(edges[i].from) = y /\ Lower(edges[i].to) = x

NoRepeat(p) == \A i, j \in 1..Len(p) : p[i] = p[j] => i = j

FollowsEdges(edges, p) == \A i \in 1..(Len(p) - 1) : IsEdgeOf(edges, p[i], p[i + 1])

\* the simple paths from s to e in the graph of the edge list
SimplePathsOf(edges, s, e) ==
    {p \in SeqsUpTo(NodesOf(edges), Cardinality(NodesOf(edges))) :
        /\ Len(p) >= 1
        /\ p[1] = s
        /\ p[Len(p)] = e
        /\ NoRepeat(p)
        /\ FollowsEdges(edges, p)}

(***************************************************************************)
(* graph.py: the Graph Builder                                             *)
(***************************************************************************)
\* IGNORED_OBJECTS
IGNORED_OBJECTS == {"fireExtinguisher"}

\* the rooms list: every room element that has points, named or not
RoomsOf(elements) == SelectSeq(elements, LAMBDA el : el.tag = "room" /\ el.children # <<>>)
\* the polylines list: the point lists of two points or more
PolylinesOf(elements) ==
    SelectSeq(elements, LAMBDA el : el.tag = "polyline" /\ Len(el.children) >= 2)
\* additional_nodes: furniture, doors and windows with a name that is not ignored
AdditionalNodesOf(elements) ==
    SelectSeq(elements, LAMBDA el : /\ el.tag \in {"pieceOfFurniture", "doorOrWindow"}
                                    /\ el.name # ""
                                    /\ el.name \notin IGNORED_OBJECTS)

\* the least and the greatest of coordinate c over the points
RECURSIVE MinCoord(_, _, _)
MinCoord(pts, c, i) ==
    IF i = Len(pts) THEN pts[i][c]
    ELSE LET rest == MinCoord(pts, c, i + 1)
         IN IF pts[i][c] < rest THEN pts[i][c] ELSE rest
RECURSIVE MaxCoord(_, _, _)
MaxCoord(pts, c, i) ==
    IF i = Len(pts) THEN pts[i][c]
    ELSE LET rest == MaxCoord(pts, c, i + 1)
         IN IF pts[i][c] > rest THEN pts[i][c] ELSE rest

\* polygon.buffer(20).contains(Point(p)) for the polygons of the model:
\* rectangles with sides along the axes, and points that are not on the rim
\* of 20 around a corner, where the buffer is rounded
point_near_polygon(p, points) ==
    /\ MinCoord(points, 1, 1) - 20 < p[1]
    /\ p[1] < MaxCoord(points, 1, 1) + 20
    /\ MinCoord(points, 2, 1) - 20 < p[2]
    /\ p[2] < MaxCoord(points, 2, 1) + 20

\* euclidean(p1, p2) <= 100
point_near_point(p1, p2) ==
    (p1[1] - p2[1]) * (p1[1] - p2[1]) + (p1[2] - p2[2]) * (p1[2] - p2[2]) <= 100 * 100

\* the second loop of identify_node; "" stands for None, which the caller
\* treats like the empty name
RECURSIVE IdentifyAmongNodes(_, _, _)
IdentifyAmongNodes(point, nodes, i) ==
    IF i > Len(nodes) THEN ""
    ELSE IF point_near_point(point, <<nodes[i].x, nodes[i].y>>) THEN nodes[i].name
    ELSE IdentifyAmongNodes(point, nodes, i + 1)

\* the first loop of identify_node: the first room near the point decides,
\* whatever its name
RECURSIVE IdentifyAmongRooms(_, _, _, _)
IdentifyAmongRooms(point, rooms, nodes, i) ==
    IF i > Len(rooms) THEN IdentifyAmongNodes(point, nodes, 1)
    ELSE IF point_near_polygon(point, rooms[i].children) THEN rooms[i].name
    ELSE IdentifyAmongRooms(point, rooms, nodes, i + 1)

identify_node(point, rooms, nodes) == IdentifyAmongRooms(point, rooms, nodes, 1)

\* if node and (len(matched_nodes) == 0 or matched_nodes[-1] != node)
IsNewMatchMutant(node, matched) == matched = <<>> \/ matched[Len(matched)] # node
IsNewMatch(node, matched) ==
    node # "" /\ (matched = <<>> \/ matched[Len(matched)] # node)

\* matched_nodes of one polyline
RECURSIVE MatchedNodes(_, _, _, _, _)
MatchedNodes(poly, i, rooms, nodes, matched) ==
    IF i > Len(poly) THEN matched
    ELSE LET node == identify_node(poly[i], rooms, nodes)
         IN MatchedNodes(poly, i + 1, rooms, nodes,
                IF IsNewMatch(node, matched) THEN Append(matched, node) ELSE matched)

\* the connections one polyline adds to raw_connections
ConnectionsOf(matched) ==
    {<<matched[i], matched[i + 1]>> : i \in {k \in 1..(Len(matched) - 1) :
        matched[k] # "" /\ matched[k + 1] # "" /\ matched[k] # matched[k + 1]}}

\* raw_connections, as a set
RawConnections(elements) ==
    UNION {ConnectionsOf(MatchedNodes(PolylinesOf(elements)[k].children, 1,
                                      RoomsOf(elements), AdditionalNodesOf(elements), <<>>)) :
           k \in 1..Len(PolylinesOf(elements))}

\* tuple(sorted((a, b)))
SortedPairMutant(a, b) == [from |-> a, to |-> b]
SortedPair(a, b) ==
    IF NameRank(a) <= NameRank(b) THEN [from |-> a, to |-> b] ELSE [from |-> b, to |-> a]

\* the set that final_edges is the list of
FinalEdgeSet(elements) == {SortedPair(c[1], c[2]) : c \in RawConnections(elements)}

\* all_nodes
AllNodesOf(edgeSet) == {e.from : e \in edgeSet} \cup {e.to : e \in edgeSet}

(***************************************************************************)
(* Specification SpecBuilder: graph.py on floor plans of up to MaxElements *)
(* elements out of a catalogue                                             *)
(***************************************************************************)
Square(cx, cy, hx) ==
    << <<cx - 50, cy - 50>>, <<cx + hx, cy - 50>>, <<cx + hx, cy + 50>>, <<cx - 50, cy + 50>> >>

PlanCatalogue ==
    { [tag |-> "room", name |-> "A", x |-> 0, y |-> 0, children |-> Square(0, 0, 50)],
      \* a room without a name over the points (0,0), (100,0) and (200,0)
      [tag |-> "room", name |-> "", x |-> 0, y |-> 0, children |-> Square(0, 0, 250)],
      [tag |-> "room", name |-> "B", x |-> 0, y |-> 0, children |-> Square(400, 0, 50)],
      [tag |-> "pieceOfFurniture", name |-> "J1", x |-> 200, y |-> 0, children |-> <<>>],
      [tag |-> "pieceOfFurniture", name |-> "", x |-> 400, y |-> 0, children |-> <<>>],
      [tag |-> "doorOrWindow", name |-> "exit", x |-> 600, y |-> 0, children |-> <<>>],
      [tag |-> "polyline", name |-> "", x |-> 0, y |-> 0,
       children |-> << <<0, 0>>, <<200, 0>>, <<400, 0>> >>],
      [tag |-> "polyline", name |-> "", x |-> 0, y |-> 0,
       children |-> << <<400, 0>>, <<200, 0>>, <<0, 0>> >>],
      [tag |-> "polyline", name |-> "", x |-> 0, y |-> 0,
       children |-> << <<400, 0>>, <<600, 0>>, <<600, 50>>, <<400, 0>> >>] }

\* the lists without a repeat that hold exactly the members of S
ListsOf(S) == {q \in SeqsUpTo(S, Cardinality(S)) :
                  Len(q) = Cardinality(S) /\ SeqToSet(q) = S}

InitBuilder ==
    /\ gplan \in {q \in SeqsUpTo(PlanCatalogue, MaxElements) :
                     \A i, j \in 1..Len(q) : q[i] = q[j] => i = j}
    /\ gedges = [done |-> FALSE, edges |-> <<>>]
    /\ ServiceIdle
    /\ PathsIdle
    /\ SafeIdle
    /\ LoadIdle
    /\ AngleIdle
    /\ DescIdle

\* one run of graph.py: final_edges is the list of a set, its order is
\* whatever the set iterates in
RunGraphPy ==
    /\ ~gedges.done
    /\ \E final_edges \in ListsOf(FinalEdgeSet(gplan)) :
          gedges' = [done |-> TRUE, edges |-> final_edges]
    /\ UNCHANGED <<gplan, serviceVars, pathVars, safeVars, loadVars, angleVars, descVars>>

NextBuilder == RunGraphPy

SpecBuilder == InitBuilder /\ [][NextBuilder]_vars

(***************************************************************************)
(* Specification SpecLoad: threads of the request pool inside              *)
(* load_building_layout for the same building at the same time            *)
(***************************************************************************)
Loaders == 1..NumLoaders

\* the local variables of a thread that has not run yet
NoLocals == [graph_data |-> "none", sh3d_elements |-> "none", layout |-> <<>>,
             raised |-> FALSE, returned |-> <<>>]

\* building_layouts[building] = {...}
StoreLayoutMutant(cache, building, layout) ==
    IF building \in DOMAIN cache
    THEN DictSet(cache, building,
                 [layout EXCEPT !.graph =
                     [n \in DOMAIN cache[building].graph \cup DOMAIN layout.graph |->
                         GraphGet(cache[building].graph, n) \o GraphGet(layout.graph, n)]])
    ELSE DictSet(cache, building, layout)
StoreLayout(cache, building, layout) == DictSet(cache, building, layout)

InitLoad ==
    /\ files \in [Buildings -> [graph : GraphDocIds \cup {"none"},
                                elements : ElementDocIds \cup {"none"}]]
    /\ building_layouts = EmptyDict
    /\ user_locations = EmptyDict
    /\ user_destinations = EmptyDict
    /\ threat_locations = EmptyDict
    /\ need_building_layout = EmptyDict
    /\ response = NoResponse
    /\ lpc = [p \in Loaders |-> "start"]
    /\ llocal = [p \in Loaders |-> NoLocals]
    /\ PathsIdle
    /\ SafeIdle
    /\ AngleIdle
    /\ DescIdle
    /\ BuilderIdle

\* if building in building_layouts: return building_layouts[building]
LoadCheckCache(p) ==
    /\ lpc[p] = "start"
    /\ IF Lower(ReqBuilding) \in DOMAIN building_layouts
       THEN /\ lpc' = [lpc EXCEPT ![p] = "done"]
            /\ llocal' = [llocal EXCEPT ![p].returned = building_layouts[Lower(ReqBuilding)]]
       ELSE /\ lpc' = [lpc EXCEPT ![p] = "exists"]
            /\ UNCHANGED llocal
    /\ UNCHANGED <<serviceVars, pathVars, safeVars, angleVars, descVars, builderVars>>

\* the os.path.exists test; record_missing_building and raise when it fails
LoadCheckFiles(p) ==
    /\ lpc[p] = "exists"
    /\ IF LayoutMissing(files[Lower(ReqBuilding)])
       THEN /\ need_building_layout' =
                   record_missing_building(need_building_layout, Lower(ReqBuilding))
            /\ lpc' = [lpc EXCEPT ![p] = "done"]
            /\ llocal' = [llocal EXCEPT ![p].raised = TRUE]
       ELSE /\ lpc' = [lpc EXCEPT ![p] = "read"]
            /\ UNCHANGED <<need_building_layout, llocal>>
    /\ UNCHANGED <<files, building_layouts, user_locations, user_destinations,
                   threat_locations, response, pathVars, safeVars, angleVars, descVars, builderVars>>

\* graph_data = json.load(f); sh3d_elements = json.load(f)
LoadReadDocuments(p) ==
    /\ lpc[p] = "read"
    /\ llocal' = [llocal EXCEPT ![p].graph_data = files[Lower(ReqBuilding)].graph,
                                ![p].sh3d_elements = files[Lower(ReqBuilding)].elements]
    /\ lpc' = [lpc EXCEPT ![p] = "build"]
    /\ UNCHANGED <<serviceVars, pathVars, safeVars, angleVars, descVars, builderVars>>

\* the loops that build graph and positions from the documents read
LoadBuild(p) ==
    /\ lpc[p] = "build"
    /\ llocal' = [llocal EXCEPT ![p].layout =
                      ParsedLayout([graph |-> llocal[p].graph_data,
                                    elements |-> llocal[p].sh3d_elements])]
    /\ lpc' = [lpc EXCEPT ![p] = "store"]
    /\ UNCHANGED <<serviceVars, pathVars, safeVars, angleVars, descVars, builderVars>>

\* building_layouts[building] = {...}
LoadStore(p) ==
    /\ lpc[p] = "store"
    /\ building_layouts' = StoreLayout(building_layouts, Lower(ReqBuilding), llocal[p].layout)
    /\ lpc' = [lpc EXCEPT ![p] = "return"]
    /\ UNCHANGED <<files, user_locations, user_destinations, threat_locations,
                   need_building_layout, response, llocal, pathVars, safeVars, angleVars, descVars, builderVars>>

\* return building_layouts[building]
LoadReturn(p) ==
    /\ lpc[p] = "return"
    /\ llocal' = [llocal EXCEPT ![p].returned = building_layouts[Lower(ReqBuilding)]]
    /\ lpc' = [lpc EXCEPT ![p] = "done"]
    /\ UNCHANGED <<serviceVars, pathVars, safeVars, angleVars, descVars, builderVars>>

NextLoad ==
    \E p \in Loaders :
        \/ LoadCheckCache(p)
        \/ LoadCheckFiles(p)
        \/ LoadReadDocuments(p)
        \/ LoadBuild(p)
        \/ LoadStore(p)
        \/ LoadReturn(p)

SpecLoad == InitLoad /\ [][NextLoad]_vars

(***************************************************************************)
(* Directional utilities. An angle is a whole number of half degrees, so   *)
(* that each threshold of angle_to_direction has angles strictly between   *)
(* it and the next whole degree.                                           *)
(***************************************************************************)
\* n degrees
Deg(n) == 2 * n

\* angle_diff = (angle_diff + 360) % 360
NormalizeAngle(angle_diff) == (angle_diff + Deg(360)) % Deg(360)

\* the tests of the if/elif chain, in the order of the source
InStraight(a) == a < Deg(45) \/ a > Deg(315)
InSlightlyRight(a) == Deg(30) <= a /\ a < Deg(60)
InTurnRight(a) == Deg(60) <= a /\ a < Deg(120)
InSharpRight(a) == Deg(120) <= a /\ a < Deg(165)
InTurnAround(a) == Deg(165) <= a /\ a < Deg(195)
InSharpLeft(a) == Deg(195) <= a /\ a < Deg(240)
InTurnLeft(a) == Deg(240) <= a /\ a < Deg(300)
InSlightlyLeftMutant(a) == Deg(315) < a /\ a <= Deg(330)
InSlightlyLeft(a) == Deg(300) <= a /\ a <= Deg(330)

\* the chain on the normalized angle
DirectionOf(a) ==
    IF InStraight(a) THEN "keep walking straight"
    ELSE IF InSlightlyRight(a) THEN "slightly right"
    ELSE IF InTurnRight(a) THEN "turn right"
    ELSE IF InSharpRight(a) THEN "sharp right"
    ELSE IF InTurnAround(a) THEN "turn around"
    ELSE IF InSharpLeft(a) THEN "sharp left"
    ELSE IF InTurnLeft(a) THEN "turn left"
    ELSE IF InSlightlyLeft(a) THEN "slightly left"
    ELSE "go"

angle_to_direction(angle_diff) == DirectionOf(NormalizeAngle(angle_diff))

\* the labels the chain returns, the fallback aside
TurnLabels == {"keep walking straight", "slightly right", "turn right", "sharp right",
               "turn around", "sharp left", "turn left", "slightly left"}

(***************************************************************************)
(* get_angle and describe_route                                            *)
(***************************************************************************)
RECURSIVE GCD(_, _)
GCD(m, n) == IF n = 0 THEN m ELSE GCD(n, m % n)

\* how many of 15, 30, 45, 60, 75 degrees the angle atan(ay / ax) has
\* reached, for ax, ay >= 0 not both 0 and without a common factor; the
\* tangents of 15, 30, 60 and 75 degrees are irrational, so whole numbers
\* meet none of these four exactly
RefSector(ax, ay) ==
    (IF 2 * ax - ay <= 0 \/ 3 * ax * ax >= (2 * ax - ay) * (2 * ax - ay) THEN 1 ELSE 0)
    + (IF 3 * ay * ay >= ax * ax THEN 1 ELSE 0)
    + (IF ay >= ax THEN 1 ELSE 0)
    + (IF ay * ay >= 3 * ax * ax THEN 1 ELSE 0)
    + (IF 2 * ay - ax >= 0 /\ 3 * ay * ay <= (2 * ay - ax) * (2 * ay - ax) THEN 1 ELSE 0)

\* atan(ay / ax) in half degrees: exact at 0, 45 and 90 degrees, else the
\* middle of the 15 degree sector the angle lies in
RefAngle(ax, ay) ==
    IF ay = 0 THEN 0
    ELSE IF ax = 0 THEN Deg(90)
    ELSE IF ax = ay THEN Deg(45)
    ELSE Deg(15) * RefSector(ax, ay) + 15

\* math.degrees(math.atan2(det, dot)) % 360
Atan2Degrees(det, dot) ==
    IF det = 0 /\ dot = 0 THEN 0
    ELSE LET g == GCD(Abs(dot), Abs(det))
             ref == RefAngle(Abs(dot) \div g, Abs(det) \div g)
         IN IF det >= 0
            THEN IF dot >= 0 THEN ref ELSE Deg(180) - ref
            ELSE IF dot < 0 THEN Deg(180) + ref ELSE (Deg(360) - ref) % Deg(360)

\* det = v1[0]*v2[1] - v1[1]*v2[0]
DetMutant(v1, v2) == v1[2] * v2[1] - v1[1] * v2[2]
Det(v1, v2) == v1[1] * v2[2] - v1[2] * v2[1]
\* dot = v1[0]*v2[0] + v1[1]*v2[1]
Dot(v1, v2) == v1[1] * v2[1] + v1[2] * v2[2]

get_angle(v1, v2) == Atan2Degrees(Det(v1, v2), Dot(v1, v2))

\* f"{dist_m:.1f}" of dist_m = cm / 100.0, as tenths of a metre; a length
\* that ends in exactly 5 cm is rounded by its binary value in the source,
\* upward here
Tenths(cm) == (cm + 5) \div 10

\* f"Exit {a} and go toward {b}."
ExitStep(a, b) == [kind |-> "Exit", from |-> a, direction |-> "", to |-> b, dist |-> 0]
\* f"Then {direction} to {b} (~{dist_m:.1f} meters)."
ThenStep(direction, b, dist) ==
    [kind |-> "Then", from |-> "", direction |-> direction, to |-> b, dist |-> dist]

\* the step describe_route appends for i > 0
TurnStep(prev, pos_a, pos_b, b) ==
    ThenStep(angle_to_direction(get_angle(<<pos_a[1] - prev[1], pos_a[2] - prev[2]>>,
                                          <<pos_b[1] - pos_a[1], pos_b[2] - pos_a[2]>>)),
             b, Tenths(Dist(pos_a, pos_b)))

\* the loop of describe_route from index i (i = 1 is the first segment);
\* routes come from the graph search, every node of theirs has a position
\* unless the route is the single unknown node
RECURSIVE describe_route_from(_, _, _, _)
describe_route_from(route, pos, i, directions) ==
    IF i > Len(route) - 1 THEN directions
    ELSE IF route[i] \notin DOMAIN pos.at \/ route[i + 1] \notin DOMAIN pos.at
         THEN describe_route_from(route, pos, i + 1, directions)
         ELSE describe_route_from(route, pos, i + 1,
                  Append(directions,
                         IF i = 1 THEN ExitStep(route[i], route[i + 1])
                         ELSE TurnStep(pos.at[route[i - 1]], pos.at[route[i]],
                                       pos.at[route[i + 1]], route[i + 1])))

describe_route(route, pos) == describe_route_from(route, pos, 1, <<>>)

(***************************************************************************)
(* optimize_directions_with_landmarks                                      *)
(***************************************************************************)
\* named_places
named_places == {"lobby", "store room", "emergency exit", "main exit", "back exit"}

\* the names of the element documents that start with "room"
RoomPrefixed == {"room1", "room2"}

\* [name for name in pos if name.startswith("room")]
room_names(pos) == SelectSeq(pos.order, LAMBDA name : name \in RoomPrefixed)

\* dist <= max_distance with max_distance = 150, where dist is the distance
\* |cross| / movement_mag of the room from the line of the movement:
\* (2 |cross| / 100)^2 <= 9 movement_mag^2; the coordinates of the element
\* documents are multiples of 10, which makes cross a multiple of 100
WithinMaxDistance(cross, mag2) ==
    LET c == (2 * Abs(cross)) \div 100
    IN c * c <= 9 * mag2

\* the loop of get_side_and_nearby_rooms over room_names, from index i;
\* proj_len < 0 or proj_len > movement_mag is dot < 0 or dot > movement_mag^2
\* for dot = proj_len * movement_mag
RECURSIVE NearbyFrom(_, _, _, _, _, _, _)
NearbyFrom(pos_a, pos_b, positions, node_name, names, i, nearby) ==
    IF i > Len(names) THEN nearby
    ELSE LET name == names[i]
             mvx == pos_b[1] - pos_a[1]
             mvy == pos_b[2] - pos_a[2]
             rvx == positions.at[name][1] - pos_a[1]
             rvy == positions.at[name][2] - pos_a[2]
             dot == rvx * mvx + rvy * mvy
             mag2 == mvx * mvx + mvy * mvy
             cross == mvx * rvy - mvy * rvx
         IN IF name \notin DOMAIN positions.at \/ name = node_name
            THEN NearbyFrom(pos_a, pos_b, positions, node_name, names, i + 1, nearby)
            ELSE IF dot < 0 \/ dot > mag2
            THEN NearbyFrom(pos_a, pos_b, positions, node_name, names, i + 1, nearby)
            ELSE IF WithinMaxDistance(cross, mag2)
            THEN NearbyFrom(pos_a, pos_b, positions, node_name, names, i + 1,
                            Append(nearby, [name |-> name,
                                            side |-> IF cross > 0 THEN "left" ELSE "right"]))
            ELSE NearbyFrom(pos_a, pos_b, positions, node_name, names, i + 1, nearby)

get_side_and_nearby_rooms(pos_a, pos_b, positions, node_name, names) ==
    IF pos_a = pos_b THEN <<>>
    ELSE NearbyFrom(pos_a, pos_b, positions, node_name, names, 1, <<>>)

\* note: "" when nearby is empty, else " passing " and the rooms with their
\* sides; the empty list stands for ""
StepNote(nearby) == nearby

\* the local variables of optimize_directions_with_landmarks before the loop
\* step_index = 0
FirstStepIndex == 0

\* segments is the list of the pairs pos_a, pos_b the passes of the loop read
OptimizerStart ==
    [result |-> <<>>, current_direction |-> "", distance_sum |-> 0,
     step_index |-> FirstStepIndex, side_notes |-> <<>>, start_phrase |-> "",
     segments |-> <<>>]

\* f"{'Then' if result else 'then'} {verb} the {dest} (~{dist:.1f} meters)"
WaypointPhrase(result, direction, dest, dist) ==
    [kind |-> "waypoint", lead |-> IF result # <<>> THEN "Then" ELSE "then",
     text |-> IF direction = "keep walking straight" THEN "enter" ELSE "reach",
     dest |-> dest, dist |-> dist, notes |-> <<>>]

\* f"then {current_direction} for ~{distance_sum:.1f} meters{...note_text...}"
MergePhrase(current_direction, distance_sum, side_notes) ==
    [kind |-> "merge", lead |-> "then", text |-> current_direction, dest |-> "",
     dist |-> distance_sum, notes |-> SelectSeq(side_notes, LAMBDA n : n # <<>>)]

\* the branch of the loop for a named place that is not the end of the route
WaypointBranchMutant(st, d) ==
    [st EXCEPT !.result = Append(IF st.current_direction # ""
                                 THEN Append(st.result,
                                             MergePhrase(st.current_direction,
                                                         st.distance_sum, st.side_notes))
                                 ELSE st.result,
                                 WaypointPhrase(st.result, d.direction, d.to, d.dist)),
               !.current_direction = "",
               !.step_index = st.step_index + 1]
WaypointBranch(st, d) ==
    [st EXCEPT !.result = Append(st.result,
                                 WaypointPhrase(st.result, d.direction, d.to, d.dist)),
               !.current_direction = "",
               !.step_index = st.step_index + 1]

\* the rest of the loop body: extend the open merge, or close it and open one
MergeBranch(st, d, note) ==
    IF d.direction = st.current_direction
    THEN [st EXCEPT !.side_notes = Append(st.side_notes, note),
                    !.distance_sum = st.distance_sum + d.dist,
                    !.step_index = st.step_index + 1]
    ELSE [st EXCEPT !.result = IF st.current_direction # ""
                               THEN Append(st.result,
                                           MergePhrase(st.current_direction, st.distance_sum,
                                                       Append(st.side_notes, note)))
                               ELSE st.result,
                    !.current_direction = d.direction,
                    !.distance_sum = d.dist,
                    !.side_notes = <<note>>,
                    !.step_index = st.step_index + 1]

\* pos_a = pos[route[step_index]], pos_b = pos[route[step_index + 1]]; the
\* lists of the source count from 0
ReadSegment(st, route, pos) ==
    [st EXCEPT !.segments = Append(st.segments, << pos.at[route[st.step_index + 1]],
                                                  pos.at[route[st.step_index + 2]] >>)]

\* one pass of the loop over directions; the two regular expressions read
\* back the fields the f-strings of describe_route wrote
OptimizerStep(st, d, route, pos) ==
    IF d.kind = "Exit"
    THEN [st EXCEPT !.start_phrase = d.from]
    ELSE IF d.to \in named_places /\ d.to # route[Len(route)]
         THEN WaypointBranch(ReadSegment(st, route, pos), d)
         ELSE MergeBranch(ReadSegment(st, route, pos), d,
                          StepNote(get_side_and_nearby_rooms(
                                       pos.at[route[st.step_index + 1]],
                                       pos.at[route[st.step_index + 2]],
                                       pos, d.to, room_names(pos))))

RECURSIVE OptimizerLoop(_, _, _, _, _)
OptimizerLoop(directions, k, st, route, pos) ==
    IF k > Len(directions) THEN st
    ELSE OptimizerLoop(directions, k + 1, OptimizerStep(st, directions[k], route, pos),
                       route, pos)

\* the flush of the open merge, result.insert(0, start_phrase) and the
\* closing sentence
OptimizerEnd(st, end_node) ==
    << [kind |-> "start", lead |-> "", text |-> st.start_phrase, dest |-> "", dist |-> 0,
        notes |-> <<>>] >>
    \o (IF st.current_direction # ""
        THEN Append(st.result,
                    MergePhrase(st.current_direction, st.distance_sum, st.side_notes))
        ELSE st.result)
    \o << [kind |-> "arrive", lead |-> "", text |-> "", dest |-> end_node, dist |-> 0,
           notes |-> <<>>] >>

optimize_directions_with_landmarks(directions, route, pos) ==
    IF directions = <<>> THEN <<>>
    ELSE OptimizerEnd(OptimizerLoop(directions, 1, OptimizerStart, route, pos),
                      route[Len(route)])

\* the pairs pos_a, pos_b the call read, one for each "Then" step
segments_read(directions, route, pos) ==
    IF directions = <<>> THEN <<>>
    ELSE OptimizerLoop(directions, 1, OptimizerStart, route, pos).segments

(***************************************************************************)
(* Specification SpecDirections: a route over the positions of an element  *)
(* document is put into words by describe_route, and the words are then    *)
(* shortened by optimize_directions_with_landmarks                         *)
(***************************************************************************)
DirectionDocs == {"plan", "corner", "hall", "wing"}

\* the routes a graph search over the positions of e can return: up to
\* MaxRouteLen names without a repeat, or the one unknown name
RoutesOver(e) ==
    {r \in SeqsUpTo(DOMAIN BuildPositions(ElementDoc(e)).at, MaxRouteLen) :
        Len(r) >= 1 /\ NoRepeat(r)}
    \cup {<<"nonexistent">>}

InitDirections ==
    /\ dpos \in DirectionDocs
    /\ droute \in RoutesOver(dpos)
    /\ ddirections = [done |-> FALSE, value |-> <<>>]
    /\ dresult = [done |-> FALSE, value |-> <<>>, segments |-> <<>>]
    /\ ServiceIdle
    /\ PathsIdle
    /\ SafeIdle
    /\ LoadIdle
    /\ AngleIdle
    /\ BuilderIdle

DescribeRouteCall ==
    /\ ~ddirections.done
    /\ ddirections' = [done |-> TRUE,
                       value |-> describe_route(droute, BuildPositions(ElementDoc(dpos)))]
    /\ UNCHANGED <<droute, dpos, dresult, serviceVars, pathVars, safeVars, loadVars,
                   angleVars, builderVars>>

OptimizeDirectionsCall ==
    /\ ddirections.done
    /\ ~dresult.done
    /\ dresult' = [done |-> TRUE,
                   value |-> optimize_directions_with_landmarks(
                                 ddirections.value, droute,
                                 BuildPositions(ElementDoc(dpos))),
                   segments |-> segments_read(ddirections.value, droute,
                                              BuildPositions(ElementDoc(dpos)))]
    /\ UNCHANGED <<droute, dpos, ddirections, serviceVars, pathVars, safeVars, loadVars,
                   angleVars, builderVars>>

NextDirections ==
    \/ DescribeRouteCall
    \/ OptimizeDirectionsCall

SpecDirections == InitDirections /\ [][NextDirections]_vars

(***************************************************************************)
(* Specification SpecAngle: angle_to_direction on every angle from one     *)
(* turn below zero to two turns                                            *)
(***************************************************************************)
InitAngle ==
    /\ adiff \in (0 - Deg(360))..(Deg(720) - 1)
    /\ adirection = "none"
    /\ ServiceIdle
    /\ PathsIdle
    /\ SafeIdle
    /\ LoadIdle
    /\ DescIdle
    /\ BuilderIdle

AngleToDirectionCall ==
    /\ adirection = "none"
    /\ adirection' = angle_to_direction(adiff)
    /\ UNCHANGED <<adiff, serviceVars, pathVars, safeVars, loadVars, descVars, builderVars>>

NextAngle == AngleToDirectionCall

SpecAngle == InitAngle /\ [][NextAngle]_vars

(***************************************************************************)
(* Claims on find_all_paths (SpecPaths)                                    *)
(***************************************************************************)
\* C1: every path find_all_paths returns is a simple path of the graph from
\* start to end: it begins with the lower-cased start, ends with the
\* lower-cased end, repeats no name, and each consecutive pair is an edge.
C1_ReturnedPathsAreSimple ==
    pcall.done =>
        \A k \in 1..Len(pcall.paths) :
            LET p == pcall.paths[k]
            IN /\ Len(p) >= 1
               /\ p[1] = Lower(pcall.start)
               /\ p[Len(p)] = Lower(pcall.end)
               /\ NoRepeat(p)
               /\ FollowsEdges(pedges, p)

\* a call that returned several paths, one of them through an inner node
C1_Witness ==
    /\ pcall.done
    /\ Len(pcall.paths) >= 2
    /\ \E k \in 1..Len(pcall.paths) : Len(pcall.paths[k]) >= 3
    /\ pcall.start = "A"

\* C5: every simple path from start to end in the graph is among the paths
\* find_all_paths returns; a node used in one sibling branch stays available
\* to the next one.
C5_AllSimplePathsReturned ==
    pcall.done =>
        \A p \in SimplePathsOf(pedges, Lower(pcall.start), Lower(pcall.end)) :
            \E k \in 1..Len(pcall.paths) : pcall.paths[k] = p

\* a later path goes straight to a node that an earlier sibling branch had
\* already walked through
C5_Witness ==
    /\ pcall.done
    /\ \E k \in 1..Len(pcall.paths) : \E m \in (k + 1)..Len(pcall.paths) :
          /\ Len(pcall.paths[m]) >= 2
          /\ \E i \in 3..Len(pcall.paths[k]) : pcall.paths[k][i] = pcall.paths[m][2]

\* C6: when start equals end, find_all_paths returns exactly one path, and
\* that path holds only that node.
C6_StartEqualsEnd ==
    (pcall.done /\ Lower(pcall.start) = Lower(pcall.end)) =>
        pcall.paths = << <<Lower(pcall.start)>> >>

\* start = end on a node that has neighbours, spelled in two cases
C6_Witness ==
    /\ pcall.done
    /\ pcall.start = "A"
    /\ pcall.end = "a"
    /\ Len(GraphGet(pgraph, "a")) >= 2
    /\ pcall.paths = << <<"a">> >>

\* C7: find_all_paths returns the empty list whenever start is absent from
\* the graph, or end is absent, or no path connects them.
C7_EmptyWhenAbsentOrUnconnected ==
    (/\ pcall.done
     /\ \/ Lower(pcall.start) \notin NodesOf(pedges)
        \/ Lower(pcall.end) \notin NodesOf(pedges)
        \/ SimplePathsOf(pedges, Lower(pcall.start), Lower(pcall.end)) = {})
        => pcall.paths = <<>>

(***************************************************************************)
(* Claims on is_safe_path (SpecSafe)                                       *)
(***************************************************************************)
\* C8: is_safe_path(path, hazards) is false exactly when the set of the
\* path's nodes and the hazard set share a name; an empty path and an empty
\* hazard set are safe.
C8_UnsafeIffIntersects ==
    /\ sresult # "none" => (sresult = "unsafe" <=> SeqToSet(spath) \cap shazards # {})
    /\ (sresult # "none" /\ (spath = <<>> \/ shazards = {})) => sresult = "safe"

\* a path found unsafe for its first node alone
C8_Witness ==
    /\ sresult = "unsafe"
    /\ Len(spath) = 3
    /\ spath[1] \in shazards
    /\ spath[2] \notin shazards
    /\ spath[3] \notin shazards

(***************************************************************************)
(* The last route query, read from the state                               *)
(***************************************************************************)
RouteOps == {"auto_reroute", "safe_move", "find_exits"}

\* the last operation was a route query that got as far as looking for paths
IsRouteQuery == response.op \in RouteOps /\ response.routed

\* the error kinds of the design, by the message the handler returns
ErrorClass(msg) ==
    CASE msg = NoPathsMsg -> "NoPathFound"
      [] msg \in {AllBlockedMsg, SafeMoveBlockedMsg, NoSafeExitMsg} -> "AllPathsBlocked"
      [] msg \in {LayoutNotFoundMsg, OpenFailedMsg} -> "LayoutUnavailable"
      [] OTHER -> "Other"

QueryLayout == building_layouts[Lower(ReqBuilding)]
QueryEdges == GraphDoc(QueryLayout.raw_graph)
QueryStart == DictGet(user_locations, UserKey(ReqBuilding), "")
QueryHazards == ThreatList(threat_locations, ReqBuilding)
\* the ends the query looks for: the destination, or every exit
QueryTargets ==
    IF response.destination # "" THEN {Lower(response.destination)}
    ELSE SeqToSet(Exits(QueryLayout.positions))
\* the paths of the graph from the start to an end of the query
QueryPaths == UNION {SimplePathsOf(QueryEdges, QueryStart, t) : t \in QueryTargets}

\* the safe paths of the query in the order the handler enumerates them
QueryCandidates ==
    IF response.destination # ""
    THEN SafePaths(find_all_paths(QueryLayout.graph, QueryStart, response.destination),
                   QueryHazards)
    ELSE LET sr == SafeRoutesFrom(Exits(QueryLayout.positions), 1, QueryLayout.graph,
                                  QueryStart, QueryHazards, QueryLayout.positions,
                                  <<>>).safe_routes
         IN [k \in 1..Len(sr) |-> sr[k].path]

\* the length of a route: the straight-line distances of its segments, added
RECURSIVE RouteLength(_)
RouteLength(p) ==
    IF Len(p) < 2 THEN 0
    ELSE Dist(QueryLayout.positions.at[p[1]], QueryLayout.positions.at[p[2]])
         + RouteLength(Tail(p))

(***************************************************************************)
(* Claims on the route queries (SpecQuery)                                 *)
(***************************************************************************)
\* C2: a route returned by a route query holds no node of the building's
\* hazard set, its first and last node included; when the user's location
\* is itself a hazard, no route is returned.
C2_RouteAvoidsHazards ==
    IsRouteQuery =>
        /\ response.kind = "route" => SeqToSet(response.path) \cap QueryHazards = {}
        /\ QueryStart \in QueryHazards => response.kind # "route"

\* a route of three nodes or more, returned while another path of the query
\* was blocked by a hazard
C2_Witness ==
    /\ IsRouteQuery
    /\ response.kind = "route"
    /\ Len(response.path) >= 3
    /\ \E p \in QueryPaths : SeqToSet(p) \cap QueryHazards # {}

\* C3: a route query whose start or destination is not a node of the graph
\* yields an error that is none of the other error kinds, and never a route.
C3_UnknownLocationReported ==
    (/\ IsRouteQuery
     /\ \/ QueryStart \notin NodesOf(QueryEdges)
        \/ /\ response.destination # ""
           /\ Lower(response.destination) \notin NodesOf(QueryEdges))
        => /\ response.kind = "error"
           /\ ErrorClass(response.error) \notin {"NoPathFound", "AllPathsBlocked",
                                                  "LayoutUnavailable"}

\* C4: for known locations, "no path exists" is reported as NoPathFound and
\* "paths exist but each holds a hazard" as AllPathsBlocked, by every route
\* endpoint.
C4_NoPathAndBlockedDistinct ==
    (/\ IsRouteQuery
     /\ QueryStart \in NodesOf(QueryEdges)
     /\ response.destination # "" => Lower(response.destination) \in NodesOf(QueryEdges))
        => /\ QueryPaths = {}
                => response.kind = "error" /\ ErrorClass(response.error) = "NoPathFound"
           /\ (QueryPaths # {} /\ \A p \in QueryPaths : SeqToSet(p) \cap QueryHazards # {})
                => response.kind = "error" /\ ErrorClass(response.error) = "AllPathsBlocked"

\* C9: the route selected is a safe path of the query of minimal total
\* length, and among those of minimal length the first one enumerated.
C9_ShortestSafePathFirstOnTies ==
    (IsRouteQuery /\ response.kind = "route") =>
        \E i \in 1..Len(QueryCandidates) :
            /\ response.path = QueryCandidates[i]
            /\ response.distance = RouteLength(QueryCandidates[i])
            /\ \A j \in 1..Len(QueryCandidates) :
                  RouteLength(QueryCandidates[j]) >= RouteLength(QueryCandidates[i])
            /\ \A j \in 1..(i - 1) :
                  RouteLength(QueryCandidates[j]) > RouteLength(QueryCandidates[i])

\* two safe paths of the same minimal length and a longer one between them
C9_Witness ==
    /\ IsRouteQuery
    /\ response.kind = "route"
    /\ \E i, j, k \in 1..Len(QueryCandidates) :
          /\ i < k
          /\ k < j
          /\ response.path = QueryCandidates[i]
          /\ QueryCandidates[j] # QueryCandidates[i]
          /\ RouteLength(QueryCandidates[j]) = RouteLength(QueryCandidates[i])
          /\ RouteLength(QueryCandidates[k]) > RouteLength(QueryCandidates[i])

(***************************************************************************)
(* Claims on the layout cache (Spec)                                       *)
(***************************************************************************)
\* the step is a request whose handler calls load_building_layout
StepLoadsLayout ==
    \/ response'.op \in {"auto_reroute", "safe_move", "update_location"} /\ response'.valid
    \/ /\ response'.op = "find_exits"
       /\ response'.valid
       /\ UserKey(ReqBuilding) \in DOMAIN user_locations

C11_LoadUsesIngestedDocuments ==
    [][(/\ StepLoadsLayout
        /\ response.op = "automater_elements"
        /\ files[Lower(ReqBuilding)].graph # "none"
        /\ files[Lower(ReqBuilding)].elements # "none")
          => /\ Lower(ReqBuilding) \in DOMAIN building_layouts'
             /\ building_layouts'[Lower(ReqBuilding)].raw_graph
                    = files[Lower(ReqBuilding)].graph
             /\ building_layouts'[Lower(ReqBuilding)].raw_elements
                    = files[Lower(ReqBuilding)].elements
      ]_vars

(***************************************************************************)
(* Claims on concurrent loads (SpecLoad)                                   *)
(***************************************************************************)
\* what one load alone leaves at building_layouts[building]
SequentialLayout ==
    load_building_layout(ReqBuilding, EmptyDict, files, EmptyDict).layout

\* C12: with both documents in place, whichever way the threads inside
\* load_building_layout interleave, each thread that has returned got a
\* layout equal to the one a single load produces, the cache never holds
\* another value for the building, and when all have returned the cache
\* holds that one entry.
C12_ConcurrentLoadsAgree ==
    ~LayoutMissing(files[Lower(ReqBuilding)]) =>
        /\ \A p \in Loaders :
              lpc[p] = "done" => /\ ~llocal[p].raised
                                 /\ llocal[p].returned = SequentialLayout
        /\ \A b \in DOMAIN building_layouts :
              b = Lower(ReqBuilding) /\ building_layouts[b] = SequentialLayout
        /\ (\A p \in Loaders : lpc[p] = "done")
              => DOMAIN building_layouts = {Lower(ReqBuilding)}

\* every thread missed the cache, parsed the documents and stored its own
\* layout, and all have returned
C12_Witness ==
    /\ ~LayoutMissing(files[Lower(ReqBuilding)])
    /\ \A p \in Loaders : lpc[p] = "done" /\ llocal[p].layout # <<>>
    /\ Lower(ReqBuilding) \in DOMAIN building_layouts

(***************************************************************************)
(* Claims on the turn labels (SpecAngle)                                   *)
(***************************************************************************)
\* C13: for every angle, which the function first brings into [0,360),
\* angle_to_direction returns one of the named turn labels and never the
\* fallback "go".
C13_BucketsExhaustive ==
    adirection # "none" =>
        /\ NormalizeAngle(adiff) \in 0..(Deg(360) - 1)
        /\ adirection \in TurnLabels
        /\ adirection # "go"

\* the angle 315, the one end of the straight band that the band leaves out,
\* got its label from the last test of the chain
C13_Witness ==
    /\ adirection = "slightly left"
    /\ NormalizeAngle(adiff) = Deg(315)

\* C14: every angle in [30,60) yields "slightly right" and every angle in
\* [300,330] yields "slightly left".
C14_SlightTurnWinsOverStraight ==
    adirection # "none" =>
        /\ (Deg(30) <= NormalizeAngle(adiff) /\ NormalizeAngle(adiff) < Deg(60))
              => adirection = "slightly right"
        /\ (Deg(300) <= NormalizeAngle(adiff) /\ NormalizeAngle(adiff) <= Deg(330))
              => adirection = "slightly left"

(***************************************************************************)
(* Claims on the words of a route (SpecDirections)                         *)
(***************************************************************************)
\* the distances shown in a list of steps or instructions, added
RECURSIVE ShownDistance(_)
ShownDistance(items) ==
    IF items = <<>> THEN 0 ELSE items[1].dist + ShownDistance(Tail(items))

\* C15: the distances shown in the output of
\* optimize_directions_with_landmarks add up to the sum of the distances of
\* the raw steps of describe_route it consumed.
C15_OptimizerKeepsDistance ==
    (dresult.done /\ dresult.value # <<>>)
        => ShownDistance(dresult.value) = ShownDistance(ddirections.value)

DirectionPositions == BuildPositions(ElementDoc(dpos)).at

\* the vector of the i-th segment of the route described
SegmentVector(i) ==
    << DirectionPositions[droute[i + 1]][1] - DirectionPositions[droute[i]][1],
       DirectionPositions[droute[i + 1]][2] - DirectionPositions[droute[i]][2] >>

\* the cross and the dot product of segment i - 1 and segment i
TurnCross(i) ==
    SegmentVector(i - 1)[1] * SegmentVector(i)[2] - SegmentVector(i - 1)[2] * SegmentVector(i)[1]
TurnDot(i) ==
    SegmentVector(i - 1)[1] * SegmentVector(i)[1] + SegmentVector(i - 1)[2] * SegmentVector(i)[2]

\* C16: on the corridor A - J1 - Exit with A = (0,0), J1 = (500,0) and
\* Exit = (500,500) the search from A to Exit finds the one path
\* [a, j1, exit] of 1000 cm, its first raw step is "Exit a and go toward
\* j1." with no label and its second is "turn right" over 5.0 m; for every
\* route the first step has no label and each later label is the bucket of
\* the signed angle of the turn: a quarter turn with positive cross product
\* is "turn right", with negative "turn left", no turn is "keep walking
\* straight", a reversal "turn around", and every other turn has a label of
\* the side its cross product has.
C16_DescribeRouteScenario ==
    (ddirections.done /\ Len(droute) >= 2 /\ droute[1] # "nonexistent") =>
        /\ Len(ddirections.value) = Len(droute) - 1
        /\ ddirections.value[1] = ExitStep(droute[1], droute[2])
        /\ \A i \in 2..(Len(droute) - 1) :
              /\ ddirections.value[i].kind = "Then"
              /\ ddirections.value[i].to = droute[i + 1]
              /\ ddirections.value[i].direction \in TurnLabels
              /\ (TurnCross(i) > 0 /\ TurnDot(i) = 0)
                    => ddirections.value[i].direction = "turn right"
              /\ (TurnCross(i) < 0 /\ TurnDot(i) = 0)
                    => ddirections.value[i].direction = "turn left"
              /\ (TurnCross(i) = 0 /\ TurnDot(i) > 0)
                    => ddirections.value[i].direction = "keep walking straight"
              /\ (TurnCross(i) = 0 /\ TurnDot(i) < 0)
                    => ddirections.value[i].direction = "turn around"
              /\ TurnCross(i) > 0
                    => ddirections.value[i].direction \in
                          {"keep walking straight", "slightly right", "turn right",
                           "sharp right", "turn around"}
              /\ TurnCross(i) < 0
                    => ddirections.value[i].direction \in
                          {"keep walking straight", "slightly left", "turn left",
                           "sharp left", "turn around"}
        /\ (dpos = "corner" /\ droute = <<"a", "j1", "exit">>) =>
              /\ find_all_paths(BuildGraph(GraphDoc("line")), "A", "Exit")
                     = << <<"a", "j1", "exit">> >>
              /\ get_total_distance(droute, BuildPositions(ElementDoc(dpos))) = 1000
              /\ ddirections.value = << ExitStep("a", "j1"),
                                        ThenStep("turn right", "exit", 50) >>

\* the route [a, j1, exit] of the scenario has been described
C16_Witness ==
    /\ ddirections.done
    /\ dpos = "corner"
    /\ droute = <<"a", "j1", "exit">>
    /\ Len(ddirections.value) = 2

(***************************************************************************)
(* Claims on the adjacency graph (SpecPaths)                               *)
(***************************************************************************)
\* C17: in the graph load_building_layout builds from an edge list, b is in
\* the neighbour list of a exactly when a is in the neighbour list of b, and
\* this stays so after every call of find_all_paths on the graph.
C17_GraphSymmetric ==
    \A a \in DOMAIN pgraph \cup AllNames, b \in DOMAIN pgraph \cup AllNames :
        b \in SeqToSet(GraphGet(pgraph, a)) <=> a \in SeqToSet(GraphGet(pgraph, b))

\* a graph with an edge, after a query that made the defaultdict insert the
\* key of a name no edge has
C17_Witness ==
    /\ pcall.done
    /\ "nonexistent" \in DOMAIN pgraph
    /\ \E a \in DOMAIN pgraph, b \in DOMAIN pgraph :
          a # b /\ b \in SeqToSet(pgraph[a])

\* C20: on every graph, find_all_paths returns for a start and an end in any
\* letter case the list of paths it returns for their lower-case spellings,
\* hence the same list for arguments that differ only in case, and every name of a returned path, like every key and neighbour of
\* the graph, is in lower case.
C20_LookupsIgnoreCase ==
    /\ \A s \in QueryNames, e \in QueryNames :
          (s # Lower(s) \/ e # Lower(e)) =>
              find_all_paths(pgraph, s, e) = find_all_paths(pgraph, Lower(s), Lower(e))
    /\ \A i \in 1..Len(pcall.paths) : \A k \in 1..Len(pcall.paths[i]) :
          Lower(pcall.paths[i][k]) = pcall.paths[i][k]
    /\ \A n \in DOMAIN pgraph :
          /\ Lower(n) = n
          /\ \A k \in 1..Len(pgraph[n]) : Lower(pgraph[n][k]) = pgraph[n][k]

\* a call with the start in upper case returned a path of two names or more,
\* on a graph built from a document that spells a name in upper case
C20_Witness ==
    /\ pcall.done
    /\ pcall.start = "A"
    /\ \E i \in 1..Len(pcall.paths) : Len(pcall.paths[i]) >= 2
    /\ \E i \in 1..Len(pedges) : pedges[i].from = "A"

(***************************************************************************)
(* Claims on the Graph Builder (SpecBuilder)                               *)
(***************************************************************************)
\* the plan with the point list of every polyline whose index is in S reversed
ReversePolylines(elements, S) ==
    [i \in 1..Len(elements) |->
        IF i \in S /\ elements[i].tag = "polyline"
        THEN [elements[i] EXCEPT !.children =
                 [k \in 1..Len(elements[i].children) |->
                     elements[i].children[Len(elements[i].children) + 1 - k]]]
        ELSE elements[i]]

\* the plan with every polyline drawn a second time
PolylinesTwice(elements) == elements \o SelectSeq(elements, LAMBDA el : el.tag = "polyline")

\* C18: the edge list graph.py writes has no entry from a name to itself and
\* no two entries for the same unordered pair of names, each entry is the
\* sorted pair, and the set of entries is the same when any of the polylines
\* is traversed from its other end or every polyline is drawn twice.
C18_EdgesCanonical ==
    gedges.done =>
        /\ \A i \in 1..Len(gedges.edges) :
              /\ gedges.edges[i].from # gedges.edges[i].to
              /\ NameRank(gedges.edges[i].from) < NameRank(gedges.edges[i].to)
        /\ \A i, j \in 1..Len(gedges.edges) :
              {gedges.edges[i].from, gedges.edges[i].to}
                  = {gedges.edges[j].from, gedges.edges[j].to} => i = j
        /\ \A S \in SUBSET (1..Len(gplan)) :
              FinalEdgeSet(ReversePolylines(gplan, S)) = SeqToSet(gedges.edges)
        /\ FinalEdgeSet(PolylinesTwice(gplan)) = SeqToSet(gedges.edges)

\* a plan in which the same corridor is drawn from both ends, with an edge
\* written for it
C18_Witness ==
    /\ gedges.done
    /\ Len(gedges.edges) >= 1
    /\ \E i, j \in 1..Len(gplan) :
          /\ i # j
          /\ gplan[i].tag = "polyline"
          /\ gplan[j] = ReversePolylines(gplan, {i})[i]

\* the plan without its rooms, furniture, doors and windows of empty name
WithoutUnnamed(elements) ==
    SelectSeq(elements, LAMBDA el : ~(/\ el.tag \in {"room", "pieceOfFurniture", "doorOrWindow"}
                                      /\ el.name = ""))

\* C19: the elements of empty name leave no trace: the edges and nodes
\* graph.py writes, and the positions load_building_layout builds, are those
\* of the plan without these elements.
C19_UnnamedElementsDropped ==
    gedges.done =>
        /\ SeqToSet(gedges.edges) = FinalEdgeSet(WithoutUnnamed(gplan))
        /\ AllNodesOf(SeqToSet(gedges.edges)) = AllNodesOf(FinalEdgeSet(WithoutUnnamed(gplan)))
        /\ BuildPositions(gplan) = BuildPositions(WithoutUnnamed(gplan))


\* the name identify_node gives vertex i of a polyline of the plan, "" for none
IdentifiedAt(poly, i) == identify_node(poly[i], RoomsOf(gplan), AdditionalNodesOf(gplan))

\* the consecutive pairs of the identified names of a polyline, with the
\* unidentified vertices left out and a name that follows itself counted once
ConsecutivePairs(poly) ==
    {<<IdentifiedAt(poly, p[1]), IdentifiedAt(poly, p[2])>> :
        p \in {q \in (1..Len(poly)) \X (1..Len(poly)) :
                 /\ q[1] < q[2]
                 /\ IdentifiedAt(poly, q[1]) # ""
                 /\ IdentifiedAt(poly, q[2]) # ""
                 /\ IdentifiedAt(poly, q[2]) # IdentifiedAt(poly, q[1])
                 /\ \A k \in (q[1] + 1)..(q[2] - 1) : IdentifiedAt(poly, k) = ""}}

\* the pairs of all polylines of the plan
PlanPairs ==
    UNION {ConsecutivePairs(PolylinesOf(gplan)[k].children) : k \in 1..Len(PolylinesOf(gplan))}

\* C25: the connections a polyline contributes are exactly the consecutive
\* pairs of the names its vertices are identified as, once the unidentified
\* vertices are skipped and a name repeated in a row is taken once; a
\* polyline with fewer than two such names contributes nothing, and a vertex
\* that is not identified does not stop the run.
C25_PolylineEdges ==
    /\ RawConnections(gplan) = PlanPairs
    /\ gedges.done =>
          SeqToSet(gedges.edges) = {SortedPair(c[1], c[2]) : c \in PlanPairs}

\* a run over a corridor with an unidentified vertex between two rooms, which
\* are connected, and a corridor that leaves a room and comes back to it over
\* unidentified vertices, which adds nothing
C25_Witness ==
    /\ gedges.done
    /\ \E k \in 1..Len(PolylinesOf(gplan)) :
          LET poly == PolylinesOf(gplan)[k].children
          IN /\ IdentifiedAt(poly, 1) = "A"
             /\ IdentifiedAt(poly, 2) = ""
             /\ IdentifiedAt(poly, 3) = "B"
    /\ \E k \in 1..Len(PolylinesOf(gplan)) :
          LET poly == PolylinesOf(gplan)[k].children
          IN /\ Len(poly) = 4
             /\ IdentifiedAt(poly, 1) = "B"
             /\ IdentifiedAt(poly, 2) = ""
             /\ IdentifiedAt(poly, 4) = "B"
             /\ ConsecutivePairs(poly) = {}
    /\ SeqToSet(gedges.edges) = {[from |-> "A", to |-> "B"]}

(***************************************************************************)
(* Claims on the Landmark Optimizer (SpecDirections)                       *)
(***************************************************************************)
\* the "Then" steps of the output of describe_route, in order
ThenSteps == SelectSeq(ddirections.value, LAMBDA d : d.kind = "Then")

\* C21: for every route of three nodes or more, the pass of the optimizer
\* over the step whose destination is route[k] reads the coordinates of
\* route[k-1] and route[k]: the path index stays on the step being processed.
C21_SegmentOfEachStep ==
    (dresult.done /\ Len(droute) >= 3) =>
        /\ Len(dresult.segments) = Len(droute) - 2
        /\ \A k \in 1..Len(dresult.segments) :
              dresult.segments[k] = << DirectionPositions[droute[k + 1]],
                                      DirectionPositions[droute[k + 2]] >>

\* the step goes to a named place that is not the end of the route
IsWaypointStep(k) ==
    /\ ThenSteps[k].to \in named_places
    /\ ThenSteps[k].to # droute[Len(droute)]

\* the landmark note the optimizer computed for "Then" step k
NoteOfStep(k) ==
    get_side_and_nearby_rooms(dresult.segments[k][1], dresult.segments[k][2],
                              BuildPositions(ElementDoc(dpos)), ThenSteps[k].to,
                              room_names(BuildPositions(ElementDoc(dpos))))

\* the notes of steps i..j that are not empty, in order
RECURSIVE NotesOfSteps(_, _)
NotesOfSteps(i, j) ==
    IF i > j THEN <<>>
    ELSE (IF NoteOfStep(i) # <<>> THEN <<NoteOfStep(i)>> ELSE <<>>) \o NotesOfSteps(i + 1, j)

\* the places of the output that hold note n: instruction x, note y of it
PlacesOf(n) ==
    {xy \in (1..Len(dresult.value)) \X (1..Len(ThenSteps)) :
        /\ xy[2] <= Len(dresult.value[xy[1]].notes)
        /\ dresult.value[xy[1]].notes[xy[2]] = n}

\* the steps that are merged and have note n
MergedStepsWith(n) == {k \in 1..Len(ThenSteps) : ~IsWaypointStep(k) /\ NoteOfStep(k) = n}

\* C22: a merged instruction carries the landmark notes of the steps merged
\* into it and no other: the note of the step whose different direction
\* closed the merge belongs to the next instruction only, and the note of
\* each step is in exactly one instruction (a note that several steps have
\* is in the output once for each of them).
C22_NotesOfMergedStepsOnly ==
    dresult.done =>
        /\ \A x \in 1..Len(dresult.value) :
              dresult.value[x].kind = "merge" =>
                  \E i \in 1..Len(ThenSteps) : \E j \in i..Len(ThenSteps) :
                      /\ \A k \in i..j : /\ ~IsWaypointStep(k)
                                          /\ ThenSteps[k].direction = dresult.value[x].text
                      /\ dresult.value[x].notes = NotesOfSteps(i, j)
        /\ \A k \in 1..Len(ThenSteps) :
              (~IsWaypointStep(k) /\ NoteOfStep(k) # <<>>) =>
                  Cardinality(PlacesOf(NoteOfStep(k)))
                      = Cardinality(MergedStepsWith(NoteOfStep(k)))

\* "enter" for the straight label and the labels that start with "turn",
\* "reach" for the others
VerbFor(direction) ==
    IF direction \in {"keep walking straight", "turn right", "turn left", "turn around"}
    THEN "enter" ELSE "reach"

\* C23: every step to a named place that is not the end of the route becomes
\* a waypoint phrase of its own, with "enter" after a straight or turning
\* label and "reach" after any other, and no waypoint phrase names the end
\* of the route.
C23_WaypointVerb ==
    dresult.done =>
        /\ \A k \in 1..Len(ThenSteps) :
              IsWaypointStep(k) =>
                  \E x \in 1..Len(dresult.value) :
                      /\ dresult.value[x].kind = "waypoint"
                      /\ dresult.value[x].dest = ThenSteps[k].to
                      /\ dresult.value[x].dist = ThenSteps[k].dist
                      /\ dresult.value[x].text = VerbFor(ThenSteps[k].direction)
        /\ \A x \in 1..Len(dresult.value) :
              dresult.value[x].kind = "waypoint" =>
                  dresult.value[x].dest # droute[Len(droute)]

(***************************************************************************)
(* Claims on the cached graph and on the recursion of find_all_paths       *)
(***************************************************************************)
\* C24: find_all_paths never changes the graph it searches: after any
\* sequence of calls, with any start and end, among them names that are not
\* nodes, the graph has the keys and the neighbour lists it had when it was
\* built from the edge list.
C24_SearchLeavesGraphUnchanged ==
    /\ DOMAIN pgraph = DOMAIN BuildGraph(pedges)
    /\ \A k \in DOMAIN BuildGraph(pedges) : pgraph[k] = BuildGraph(pedges)[k]

\* the activations of find_all_paths that are running
FrameCount == Len(pstack)
\* every running activation below the innermost has marked one name more
\* than its caller had, and the innermost is about to
VisitedGrows ==
    \A k \in 1..FrameCount :
        /\ pstack[k].pc = "loop" =>
              /\ Cardinality(pstack[k].visited) = k
              /\ Len(pstack[k].path) = k
        /\ pstack[k].pc = "entry" =>
              /\ k = FrameCount
              /\ Cardinality(pstack[k].visited) = k - 1
              /\ NormalizeName(pstack[k].start) \notin pstack[k].visited

\* C26 as stated: the recursion depth of find_all_paths never exceeds the
\* number of nodes of the graph.
C26_DepthWithinNodeCount ==
    FrameCount <= Cardinality(NodesOf(pedges))

\* C26: find_all_paths returns on every graph for every start and end
\* without a bound from the caller: the visited set grows by one name with
\* every nested activation, so there are never more activations than the
\* graph has nodes, the start counted as one when it is not a node.
C26_SearchTerminates ==
    /\ [](VisitedGrows
          /\ (pstack # <<>> =>
                FrameCount <= Cardinality(NodesOf(pedges) \cup {Lower(pcall.start)})))
    /\ <>(pcall.done /\ pstack = <<>>)

\* the recursion is as deep as a graph of three nodes allows, after it has
\* skipped a visited neighbour on the way
C26_Witness ==
    /\ FrameCount = 3
    /\ Cardinality(NodesOf(pedges)) = 3
    /\ pstack[3].pc = "loop"
    /\ pstack[3].i > 1

====
